---- MODULE Spec2Model ----
(***************************************************************************)
(* The generation request pipeline of src/masters/service.ts: the proxy   *)
(* ("backend server") tier gated by a health probe, the direct Gemini     *)
(* tier (streaming first, then the whole-body call), the typewriter       *)
(* simulation and the error messages surfaced to the caller.              *)
(*                                                                         *)
(* One request is followed from its call to its return or throw.  Every   *)
(* `await` on the network is a value of pc; an action is the code that    *)
(* runs between two awaits.  Strings are sequences of one-character       *)
(* strings, so trim(), startsWith() and length are computed, not assumed. *)
(***************************************************************************)
EXTENDS Integers, Sequences, FiniteSets, TLC

\* ------------------------------------------------------------------ bounds
MaxLen == 2        \* longest text a whole-body response carries
MaxReads == 2      \* reader.read() calls that return a chunk, per request
MaxUpdates == 1    \* updateSettings calls while the request is in flight
MaxFullText == 7   \* longest text handed to the typewriter on its own

\* ----------------------------------------------------------------- strings
Chars == {"a", " "}

RECURSIVE Rep(_, _)
Rep(c, n) == IF n = 0 THEN <<>> ELSE <<c>> \o Rep(c, n - 1)

RECURSIVE TrimStart(_)
TrimStart(s) == IF s # <<>> /\ Head(s) = " " THEN TrimStart(Tail(s)) ELSE s

RECURSIVE TrimEnd(_)
TrimEnd(s) ==
    IF s # <<>> /\ s[Len(s)] = " " THEN TrimEnd(SubSeq(s, 1, Len(s) - 1)) ELSE s

\* String.prototype.trim
Trim(s) == TrimEnd(TrimStart(s))

TextsOfLen(n) == [1..n -> Chars]
Texts == UNION {TextsOfLen(n) : n \in 0..MaxLen}

\* --------------------------------------------------- config.ts: API key
AIza == <<"A", "I", "z", "a">>
MinKeyLen == 20

\* isValidApiKeyFormat without the prefix test
isValidApiKeyFormat_anyPrefix(apiKey) == Len(Trim(apiKey)) >= MinKeyLen

isValidApiKeyFormat(apiKey) ==
    LET trimmedKey == Trim(apiKey)
    IN  /\ Len(trimmedKey) >= MinKeyLen
        /\ SubSeq(trimmedKey, 1, 4) = AIza

getActiveApiKey(configKey, userApiKey) ==
    IF Len(Trim(configKey)) > 0 THEN Trim(configKey) ELSE Trim(userApiKey)

hasValidApiKey(configKey, userApiKey) ==
    LET activeKey == getActiveApiKey(configKey, userApiKey)
    IN  Len(activeKey) > 0 /\ isValidApiKeyFormat(activeKey)

\* the keys a user can have stored, and the key config.ts can be built with
EmptyKey == <<>>
ShortKey == AIza \o Rep("u", MinKeyLen - 5)        \* 19 characters
BadPrefixKey == <<"B", "I", "z", "a">> \o Rep("u", MinKeyLen - 4)
UserKey == AIza \o Rep("u", MinKeyLen - 4)
PaddedUserKey == <<" ">> \o UserKey
BuiltInKey == AIza \o Rep("c", MinKeyLen - 4)

UserKeys == {EmptyKey, ShortKey, BadPrefixKey, UserKey, PaddedUserKey}
ConfigKeys == {EmptyKey, BuiltInKey}
ServerUrls == {<<>>, <<" ">>, <<"h">>}

\* `serverUrl && serverUrl.trim()`
serverConfigured(serverUrl) == serverUrl # <<>> /\ Trim(serverUrl) # <<>>

\* ------------------------------------------------- service.ts: the persona
\* a caller's `master` argument: a complete Master, an object with a field
\* missing or empty, or null
Masters == {"valid", "incomplete", "null"}

isValidMaster(master) == master = "valid"

\* buildPrompt reads master.prompt: a TypeError on null, a string otherwise
buildPromptThrows(master) == master = "null"

\* ------------------------------------------------- service.ts: the prompt
\* a string is the sequence of its characters; a fixed text of the source is
\* written as one token
Sep == <<"\n", "\n">>
DataHeading == Sep \o <<"divination data:", "\n">>
UserHeading == Sep \o <<"user info:", "\n">>
Closing == Sep \o <<"analyse the above:">>
LanguageRule == Sep \o <<"language rule">>
FormatRule == Sep \o <<"format rule">>

\* the values a caller passes as divinationData and userInfo: undefined, a
\* string, a number, an object whose fields are strings
Undefined == [type |-> "undefined"]
Str(t) == [type |-> "string", text |-> t]
Num(n) == [type |-> "number", n |-> n]
Obj(fields) == [type |-> "object", fields |-> fields]
Field(k, v) == [k |-> k, v |-> v]

\* JSON's string literal: quotes around the characters, `"` and `\` escaped
RECURSIVE Escaped(_)
Escaped(t) ==
    IF t = <<>> THEN <<>>
    ELSE (IF Head(t) \in {"\"", "\\"} THEN <<"\\", Head(t)>> ELSE <<Head(t)>>)
         \o Escaped(Tail(t))

Quoted(t) == <<"\"">> \o Escaped(t) \o <<"\"">>

\* the members of JSON.stringify(obj, null, 2): one per line, indented by 2
RECURSIVE Members(_)
Members(fields) ==
    IF fields = <<>> THEN <<>>
    ELSE <<" ", " ">> \o Quoted(Head(fields).k) \o <<":", " ">>
         \o Quoted(Head(fields).v)
         \o (IF Tail(fields) = <<>> THEN <<>> ELSE <<",", "\n">> \o Members(Tail(fields)))

Digits == <<"0", "1", "2", "3", "4", "5", "6", "7", "8", "9">>

\* `typeof x === 'object' ? JSON.stringify(x, null, 2) : String(x)` (163-167)
Serialized(x) ==
    CASE x.type = "object" ->
           IF x.fields = <<>> THEN <<"{", "}">>
           ELSE <<"{", "\n">> \o Members(x.fields) \o <<"\n", "}">>
      [] x.type = "string" -> x.text
      [] x.type = "number" -> <<Digits[x.n + 1]>>
      [] OTHER -> <<"u", "n", "d", "e", "f", "i", "n", "e", "d">>

\* `if (userInfo)`: undefined, '' and 0 are falsy
Truthy(x) ==
    CASE x.type = "undefined" -> FALSE
      [] x.type = "string" -> x.text # <<>>
      [] x.type = "number" -> x.n # 0
      [] OTHER -> TRUE

\* the game types with a business template (215-227)
GameTemplates == {"liuyao", "qimen", "bazi", "palmistry", "zhougong"}

\* bazi looks for a non-blank userInfo.question (220-222)
hasQuestion(userInfo) ==
    /\ userInfo.type = "object"
    /\ \E i \in DOMAIN userInfo.fields :
          userInfo.fields[i].k = <<"question">> /\ Trim(userInfo.fields[i].v) # <<>>

\* `你是${master.name}。`, the head of every business template
Intro(master) == <<"you are ">> \o master.name \o <<".">>

\* the default word limit (25)
DEFAULT_WORD_LIMIT == 1200

\* `const wordLimit = hasQuestion ? DEFAULT_WORD_LIMIT + 200 :
\* DEFAULT_WORD_LIMIT` of getBaZiPrompt (337)
wordLimit(question) ==
    IF question THEN DEFAULT_WORD_LIMIT + 200 ELSE DEFAULT_WORD_LIMIT

\* a ceiling written into a template, `${n}` between its two fixed halves
\* (256, 285)
LimitMark == "keep within "
Ceiling(n) == <<LimitMark, ToString(n), " characters">>

QuestionSection == <<"question section">>

\* the business template of a game type after its head (255-487): the
\* opening line with the ceiling, the sections, the notes with the ceiling
\* again.  Only getBaZiPrompt takes hasQuestion (223, 336-396); the others
\* write DEFAULT_WORD_LIMIT, and the palmistry template has the ceiling in
\* its notes only (452, 483)
Template(gameType, question) ==
    IF gameType = "bazi"
    THEN <<"bazi format">> \o Ceiling(wordLimit(question))
         \o (IF question THEN QuestionSection ELSE <<>>)
         \o <<"notes">> \o Ceiling(wordLimit(question))
    ELSE IF gameType = "palmistry"
    THEN <<"palmistry format", "notes">> \o Ceiling(DEFAULT_WORD_LIMIT)
    ELSE <<gameType \o " format">> \o Ceiling(DEFAULT_WORD_LIMIT)
         \o <<"notes">> \o Ceiling(DEFAULT_WORD_LIMIT)

\* buildGamePromptFromConfig (198-202)
buildGamePromptFromConfig(config) == config.baseRole \o Sep \o config.analysisStyle

\* getGameSpecificPrompt (211-248): null for a game type without template;
\* a master with its own gamePrompts entry has the head replaced by it
getGameSpecificPrompt(master, gameType, userInfo) ==
    IF gameType \notin GameTemplates THEN <<>>
    ELSE IF gameType \in DOMAIN master.gamePrompts
    THEN buildGamePromptFromConfig(master.gamePrompts[gameType]) \o Sep
         \o Template(gameType, hasQuestion(userInfo))
    ELSE Intro(master) \o Template(gameType, hasQuestion(userInfo))

\* buildPrompt leaving the data block out when a game template is used
buildPrompt_templateOnly(master, divinationData, gameType, userInfo) ==
    IF gameType # "" /\ getGameSpecificPrompt(master, gameType, userInfo) # <<>>
    THEN master.prompt \o Sep \o getGameSpecificPrompt(master, gameType, userInfo)
         \o Closing \o LanguageRule
    ELSE master.prompt \o DataHeading \o Serialized(divinationData)
         \o Closing \o LanguageRule

\* buildPrompt (150-190); gameType "" is the argument left out
buildPrompt(master, divinationData, gameType, userInfo) ==
    master.prompt
    \o (IF gameType # "" /\ getGameSpecificPrompt(master, gameType, userInfo) # <<>>
        THEN Sep \o getGameSpecificPrompt(master, gameType, userInfo) ELSE <<>>)
    \o DataHeading \o Serialized(divinationData)
    \o (IF Truthy(userInfo) THEN UserHeading \o Serialized(userInfo) ELSE <<>>)
    \o Closing \o LanguageRule
    \o (IF gameType = "" THEN FormatRule ELSE <<>>)

\* the inputs of buildPrompt: Masters that pass isValidMaster, with and
\* without a gamePrompts entry
PromptMasters ==
    {[name |-> <<"n">>, prompt |-> <<"p">>, gamePrompts |-> <<>>],
     [name |-> <<"n">>, prompt |-> <<"p", "\"">>,
      gamePrompts |-> [g \in {"liuyao"} |->
                         [baseRole |-> <<"r">>, analysisStyle |-> <<"s">>]]]}
GameTypes == {"", "liuyao", "bazi", "palmistry", "tarot"}
Payloads ==
    {Obj(<<>>), Obj(<<Field(<<"a">>, <<"x">>)>>),
     Obj(<<Field(<<"a">>, <<"\"">>), Field(<<"b">>, <<"\\", "y">>)>>),
     Str(<<"x">>), Num(7)}
UserInfos ==
    {Undefined, Str(<<>>), Str(<<"u">>), Obj(<<Field(<<"question">>, <<"q">>)>>),
     Obj(<<Field(<<"question">>, <<" ">>)>>)}

\* ---------------------------------------------------- config.ts: images
SUPPORTED_IMAGE_TYPES == {"image/jpeg", "image/png", "image/webp", "image/gif"}

isSupportedImageType(mimeType) == mimeType \in SUPPORTED_IMAGE_TYPES

\* the image arguments a caller passes: a good image, one with no data, one
\* of a type outside the list
NoImage == [data |-> <<>>, mimeType |-> ""]
Images == {[data |-> <<"d">>, mimeType |-> "image/png"],
           [data |-> <<" ">>, mimeType |-> "image/png"],
           [data |-> <<"d">>, mimeType |-> "image/bmp"]}

\* ------------------------------------------------------ the typewriter
RECURSIVE Prefixes_dropsRemainder(_, _, _)
\* the prefix loop stopping before a last, shorter chunk
Prefixes_dropsRemainder(text, size, i) ==
    IF i + size > Len(text) THEN <<>>
    ELSE <<SubSeq(text, 1, i + size)>> \o Prefixes_dropsRemainder(text, size, i + size)

RECURSIVE Prefixes(_, _, _)
\* the strings `currentText` takes while i runs from `i` in steps of `size`
Prefixes(text, size, i) ==
    IF i >= Len(text) THEN <<>>
    ELSE LET upto == IF i + size < Len(text) THEN i + size ELSE Len(text)
         IN  <<SubSeq(text, 1, upto)>> \o Prefixes(text, size, i + size)

chunkSize == 3

\* the chunked typewriter without its closing onUpdate(result)
simulateChunks_noFinalFrame(onUpdate, result) ==
    IF onUpdate /\ result # <<>> THEN Prefixes(result, chunkSize, 0) ELSE <<>>

\* getServerAnalysis / getServerVisionAnalysis / getPalmistryAnalysisStream:
\* `if (onUpdate && result)`, the prefix loop, then onUpdate(result)
simulateChunks(onUpdate, result) ==
    IF onUpdate /\ result # <<>>
    THEN Prefixes(result, chunkSize, 0) \o <<result>>
    ELSE <<>>

\* getAIAnalysisStream's catch block: one onUpdate per character, no last frame
simulateChars(onUpdate, result) ==
    IF onUpdate /\ result # <<>> THEN Prefixes(result, 1, 0) ELSE <<>>

\* ------------------------------------------------ games/liuyao/logic.ts
\* COIN_VALUES (26-29): tails 2, heads 3
COIN_VALUES == {2, 3}

\* generateYao (76-129): three tosses, the line by their total
generateYao(toss1, toss2, toss3) ==
    LET total == toss1 + toss2 + toss3 IN
    CASE total = 6 -> [value |-> total, changing |-> TRUE, type |-> "yin",
                       change |-> "changing"]
      [] total = 7 -> [value |-> total, changing |-> FALSE, type |-> "yang",
                       change |-> "static"]
      [] total = 8 -> [value |-> total, changing |-> FALSE, type |-> "yin",
                       change |-> "static"]
      [] total = 9 -> [value |-> total, changing |-> TRUE, type |-> "yang",
                       change |-> "changing"]
      [] OTHER -> [value |-> total, changing |-> FALSE, type |-> "yin",
                   change |-> "static"]

\* the positions counted from 0, as the array indexes them
changingPositions_zeroBased(yaos) ==
    SelectSeq([i \in 1..Len(yaos) |-> IF yaos[i].changing THEN i - 1 ELSE -1],
              LAMBDA pos : pos # -1)

\* `yaos.map((yao, index) => yao.changing ? index + 1 : null).filter(...)`
\* (139-141, 336-338); 0 stands for null
changingPositions(yaos) ==
    SelectSeq([i \in 1..Len(yaos) |-> IF yaos[i].changing THEN i ELSE 0],
              LAMBDA pos : pos # 0)

\* the binary string of the hexagram, bottom line first (146-148)
originalBinary(yaos) ==
    [i \in 1..Len(yaos) |-> IF yaos[i].type = "yang" THEN "1" ELSE "0"]

\* the binary string after the changing lines have turned (151-162)
changedBinary(yaos) ==
    [i \in 1..Len(yaos) |->
        IF yaos[i].changing
        THEN (IF yaos[i].type = "yin" THEN "1" ELSE "0")
        ELSE (IF yaos[i].type = "yang" THEN "1" ELSE "0")]

\* the result generateHexagram returns for the six lines (138-171);
\* changedHexagram left undefined is the empty string here, falsy as
\* undefined is, and the timestamp is left out
generateHexagram(yaos) ==
    [yaos |-> yaos,
     originalHexagram |-> originalBinary(yaos),
     changedHexagram |-> IF Len(changingPositions(yaos)) > 0
                         THEN changedBinary(yaos) ELSE <<>>,
     hasChangingLines |-> Len(changingPositions(yaos)) > 0,
     changingPositions |-> changingPositions(yaos)]

\* isValidYao (296-316)
isValidYao(yao) ==
    CASE yao.value = 6 -> yao.type = "yin" /\ yao.changing /\ yao.change = "changing"
      [] yao.value = 7 -> yao.type = "yang" /\ ~yao.changing /\ yao.change = "static"
      [] yao.value = 8 -> yao.type = "yin" /\ ~yao.changing /\ yao.change = "static"
      [] yao.value = 9 -> yao.type = "yang" /\ yao.changing /\ yao.change = "changing"
      [] OTHER -> FALSE

\* isValidHexagram (323-359)
isValidHexagram(res) ==
    IF Len(res.yaos) # 6 THEN FALSE
    ELSE IF ~(\A i \in DOMAIN res.yaos : isValidYao(res.yaos[i])) THEN FALSE
    ELSE IF Len(changingPositions(res.yaos)) # Len(res.changingPositions) THEN FALSE
    ELSE IF \E i \in DOMAIN res.changingPositions :
                changingPositions(res.yaos)[i] # res.changingPositions[i]
    THEN FALSE
    ELSE IF res.hasChangingLines /\ res.changedHexagram = <<>> THEN FALSE
    ELSE IF ~res.hasChangingLines /\ res.changedHexagram # <<>> THEN FALSE
    ELSE TRUE

NoHexagram ==
    [yaos |-> <<>>, originalHexagram |-> <<>>, changedHexagram |-> <<>>,
     hasChangingLines |-> FALSE, changingPositions |-> <<>>]

\* -------------------------------------------------- games/bazi/logic.ts
HEAVENLY_STEMS ==
    <<"jia", "yi", "bing", "ding", "wu", "ji", "geng", "xin", "ren", "gui">>
EARTHLY_BRANCHES ==
    <<"zi", "chou", "yin", "mao", "chen", "si", "wu", "wei", "shen", "you",
      "xu", "hai">>
ZODIAC_ANIMALS ==
    <<"rat", "ox", "tiger", "rabbit", "dragon", "snake", "horse", "goat",
      "monkey", "rooster", "dog", "pig">>

\* arr[i] of JavaScript: undefined outside the array
At(arr, i) == IF i \in 0..(Len(arr) - 1) THEN arr[i + 1] ELSE "undefined"

\* a % n of JavaScript: the remainder has the sign of a
Rem(a, n) == IF a >= 0 THEN a % n ELSE -((-a) % n)

\* Date: a civil date [year, month (1..12), date, hours]
IsLeap(y) == (y % 4 = 0 /\ y % 100 # 0) \/ y % 400 = 0
DaysInMonth(y, m) ==
    IF m = 2 THEN (IF IsLeap(y) THEN 29 ELSE 28)
    ELSE IF m \in {4, 6, 9, 11} THEN 30 ELSE 31

RECURSIVE DaysBeforeMonth(_, _)
DaysBeforeMonth(y, m) ==
    IF m = 1 THEN 0 ELSE DaysBeforeMonth(y, m - 1) + DaysInMonth(y, m - 1)

\* the days from the start of the calendar to the date
DayNumber(d) ==
    365 * (d.year - 1) + ((d.year - 1) \div 4) - ((d.year - 1) \div 100)
    + ((d.year - 1) \div 400) + DaysBeforeMonth(d.year, d.month) + d.date

RECURSIVE Normalised(_)
\* a Date whose day of the month was set past the end of the month
Normalised(d) ==
    IF d.date <= DaysInMonth(d.year, d.month) THEN d
    ELSE Normalised([d EXCEPT !.date = @ - DaysInMonth(d.year, d.month),
                              !.month = IF @ = 12 THEN 1 ELSE @ + 1,
                              !.year = IF d.month = 12 THEN @ + 1 ELSE @])

\* lunarToSolar (116-122): thirty days later
lunarToSolar(lunarDate) == Normalised([lunarDate EXCEPT !.date = @ + 30])

\* calculateGanZhi (127-179): the indices into the stems and branches and
\* the four pillars looked up with them
calculateGanZhi(date) ==
    LET baseYear == 1900
        yearOffset == date.year - baseYear
        yearStemIndex == Rem(yearOffset + 6, 10)
        yearBranchIndex == Rem(yearOffset, 12)
        monthBranchIndex == Rem(date.month + 1, 12)
        monthStemIndex == Rem(yearStemIndex * 2 + monthBranchIndex, 10)
        \* whole days since 1 January 1900, in a zone without clock changes
        daysDiff == DayNumber(date)
                    - DayNumber([year |-> 1900, month |-> 1, date |-> 1, hours |-> 0])
        dayStemIndex == Rem(daysDiff + 6, 10)
        dayBranchIndex == Rem(daysDiff + 6, 12)
        hourBranchIndex == Rem((date.hours + 1) \div 2, 12)
        hourStemIndex == Rem(dayStemIndex * 2 + hourBranchIndex, 10)
    IN  [index |-> [year |-> [stem |-> yearStemIndex, branch |-> yearBranchIndex],
                    month |-> [stem |-> monthStemIndex, branch |-> monthBranchIndex],
                    day |-> [stem |-> dayStemIndex, branch |-> dayBranchIndex],
                    hour |-> [stem |-> hourStemIndex, branch |-> hourBranchIndex]],
         stemBranch |->
             [year |-> [stem |-> At(HEAVENLY_STEMS, yearStemIndex),
                        branch |-> At(EARTHLY_BRANCHES, yearBranchIndex)],
              month |-> [stem |-> At(HEAVENLY_STEMS, monthStemIndex),
                         branch |-> At(EARTHLY_BRANCHES, monthBranchIndex)],
              day |-> [stem |-> At(HEAVENLY_STEMS, dayStemIndex),
                       branch |-> At(EARTHLY_BRANCHES, dayBranchIndex)],
              hour |-> [stem |-> At(HEAVENLY_STEMS, hourStemIndex),
                        branch |-> At(EARTHLY_BRANCHES, hourBranchIndex)]]]

\* the index calculateZodiacAnimal looks ZODIAC_ANIMALS up with (186-187)
zodiacOffset(year) == Rem(year - 1900, 12)

\* calculateZodiacAnimal (184-189)
calculateZodiacAnimal(year) == At(ZODIAC_ANIMALS, zodiacOffset(year))

\* timeRanges of getTimeRangeByHour (390-403): the branch of each slot and
\* the hours listed for it
timeRanges ==
    <<[name |-> "zi", hours |-> {23, 0}], [name |-> "chou", hours |-> {1, 2}],
      [name |-> "yin", hours |-> {3, 4}], [name |-> "mao", hours |-> {5, 6}],
      [name |-> "chen", hours |-> {7, 8}], [name |-> "si", hours |-> {9, 10}],
      [name |-> "wu", hours |-> {11, 12}], [name |-> "wei", hours |-> {13, 14}],
      [name |-> "shen", hours |-> {15, 16}], [name |-> "you", hours |-> {17, 18}],
      [name |-> "xu", hours |-> {19, 20}], [name |-> "hai", hours |-> {21, 22}]>>

\* getTimeRangeByHour (388-414): the name of the first slot listing the
\* hour, the first slot when none does
getTimeRangeByHour(hour) ==
    IF \E i \in 1..12 : hour \in timeRanges[i].hours
    THEN timeRanges[CHOOSE i \in 1..12 :
                       /\ hour \in timeRanges[i].hours
                       /\ \A j \in 1..(i - 1) : hour \notin timeRanges[j].hours].name
    ELSE timeRanges[1].name

\* generateBaZiChart (309-353): the date made solar and set to the birth
\* hour, the four pillars and the zodiac animal computed from it
generateBaZiChart(info) ==
    LET solarDate == [(IF info.isLunar THEN lunarToSolar(info.birthDate)
                       ELSE info.birthDate) EXCEPT !.hours = info.birthTime]
    IN  [solarDate |-> solarDate,
         zodiacAnimal |-> calculateZodiacAnimal(solarDate.year),
         ganZhi |-> calculateGanZhi(solarDate)]

\* the births a caller passes: years on both sides of the base year, the
\* first and the last regular day of every month, every hour
BirthYears == {1888, 1899, 1900, 1901, 1984, 2024}
BirthInfos ==
    {[birthDate |-> [year |-> y, month |-> m, date |-> d, hours |-> 0],
      isLunar |-> l, birthTime |-> h] :
        y \in BirthYears, m \in 1..12, d \in {1, 28}, l \in BOOLEAN, h \in 0..23}

NoBirth ==
    [birthDate |-> [year |-> 1900, month |-> 1, date |-> 1, hours |-> 0],
     isLunar |-> FALSE, birthTime |-> 0]
NoChart ==
    [solarDate |-> NoBirth.birthDate, zodiacAnimal |-> "",
     ganZhi |-> calculateGanZhi(NoBirth.birthDate)]

\* ------------------------------------------------------------ the state
VARIABLES
    settings,          \* useAppStore.getState().settings: [apiKey, serverUrl]
    GEMINI_API_KEY,    \* API_CONFIG.GEMINI_API_KEY, fixed by the build
    ENABLE_STREAMING,  \* the switch of service.ts, fixed by the build
    updates,           \* updateSettings calls made while the request runs
    op,                \* the exported function the caller called
    master,            \* its `master` argument
    onUpdate,          \* whether the caller passed a sink
    image,             \* its image arguments: [data, mimeType]
    divinationData,    \* the payload buildPrompt is called with
    gameType,          \* its `gameType` argument, "" when left out
    userInfo,          \* its `userInfo` argument
    prompt,            \* the string buildPrompt returned
    pc,                \* the await the request is suspended at
    frame,             \* the function that is executing
    apiKey,            \* that function's `apiKey` local
    serverUrl,         \* that function's `serverUrl` local
    accumulatedText,   \* accumulatedText / fullText of the stream being read
    buffer,            \* the direct stream's `buffer`: the tokens of the open line
    reads,             \* chunks read so far
    wire,              \* what the body being read has carried so far
    calls,             \* every network request issued, in order
    checked,           \* every hasValidApiKey evaluation, in order
    sink,              \* every string passed to onUpdate, in order
    outcome,           \* "none", "success" (returned) or "failure" (threw)
    result,            \* the string returned
    error,             \* the message of the Error thrown
    peer,              \* a second request in flight: its own locals and sink
    reader,            \* the readers of the request: [acquired, released]
    yaos,              \* generateHexagram's `yaos`: the lines generated so far
    hexagram,          \* the LiuYaoResult generateHexagram returned
    birthInfo,         \* generateBaZiChart's `birthInfo` argument
    chart              \* the chart generateBaZiChart returned

config == <<GEMINI_API_KEY, ENABLE_STREAMING>>
prompting == <<divinationData, gameType, userInfo, prompt>>
games == <<yaos, hexagram, birthInfo, chart>>
args == <<op, master, onUpdate, image, prompting, games>>
locals == <<frame, apiKey, serverUrl>>
stream == <<accumulatedText, buffer, reads, wire>>
history == <<calls, checked, sink>>
vars == <<settings, config, updates, args, pc, locals, stream, history,
          outcome, result, error, peer, reader>>

Ops == {"getAIAnalysisStream", "getAIAnalysis",
        "getPalmistryAnalysisStream", "getPalmistryAnalysis"}

\* ------------------------------------------------------ network requests
ProxyEndpoints == {"api/gemini/generate", "api/gemini/stream",
                   "api/gemini/vision", "api/gemini/vision-stream"}
DirectEndpoints == {"generateContent", "streamGenerateContent"}

\* a request as it leaves: its endpoint, the key in its URL, how the tier
\* that issued it ended ("pending" while it is awaited) and, for a tier whose
\* Error left the function, that Error
Request(ep, key) == [ep |-> ep, key |-> key, out |-> "pending", err |-> ""]

Settle(c, out) == [c EXCEPT ![Len(c)].out = out]
Failed(c, err) == [c EXCEPT ![Len(c)].out = "fail", ![Len(c)].err = err]

\* hasValidApiKey(k) evaluated after `at` requests: the active key it looked at
Check(k, at) == [key |-> getActiveApiKey(GEMINI_API_KEY, k), at |-> at]

\* --------------------------------------------------------- the responses
NoText == <<>>
Bodies ==
    {[kind |-> "noCandidates", text |-> NoText],
     [kind |-> "noParts", text |-> NoText]}
    \cup {[kind |-> "text", text |-> t] : t \in Texts}

\* what `await fetch(...)` and `await response.json()` give on a proxy call
FetchResponses ==
    {[kind |-> "rejected", text |-> NoText],
     [kind |-> "notOk", text |-> NoText],
     [kind |-> "badJson", text |-> NoText]} \cup Bodies

\* what the health probe can meet; "ok" is a 2xx body with status "ok"
HealthResponses == {"timeout", "rejected", "notOk", "badJson", "otherBody", "ok"}

\* the probe taking every parseable 2xx body for a healthy one
checkServerHealth_anyBody(response) == response \in {"ok", "otherBody"}

checkServerHealth(response) == response = "ok"

\* what axios.post gives: a body (2xx), or an AxiosError
Statuses == {400, 401, 403, 413, 429, 500, 503}
AxiosErrors ==
    {[response |-> st, request |-> TRUE, code |-> "ERR_BAD_RESPONSE"] : st \in Statuses}
    \cup {[response |-> 0, request |-> TRUE, code |-> "ERR_NETWORK"],
          [response |-> 0, request |-> TRUE, code |-> "ECONNABORTED"]}

\* the catch block of getAIAnalysis without its `case 429`
classify_noRateLimit(e) ==
    IF e.response # 0
    THEN CASE e.response = 400 -> "API request error"
           [] e.response = 401 -> "API key invalid"
           [] e.response = 403 -> "API access denied"
           [] e.response = 500 -> "Gemini internal server error"
           [] OTHER -> "API call failed (HTTP status)"
    ELSE IF e.request THEN "network connection failed"
    ELSE IF e.code = "ECONNABORTED" THEN "API call timed out"
    ELSE "rethrown"

\* the catch block of getAIAnalysis: the message of the Error it throws
classify(e) ==
    IF e.response # 0
    THEN CASE e.response = 400 -> "API request error"
           [] e.response = 401 -> "API key invalid"
           [] e.response = 403 -> "API access denied"
           [] e.response = 429 -> "API rate limit exceeded"
           [] e.response = 500 -> "Gemini internal server error"
           [] OTHER -> "API call failed (HTTP status)"
    ELSE IF e.request THEN "network connection failed"
    ELSE IF e.code = "ECONNABORTED" THEN "API call timed out"
    ELSE "rethrown"

\* parseBody without its last check: a blank text passes
parseBody_blankPasses(body) ==
    IF body.kind = "noCandidates" THEN [ok |-> FALSE, text |-> NoText, failed |-> "candidates"]
    ELSE IF body.kind = "noParts" THEN [ok |-> FALSE, text |-> NoText, failed |-> "parts"]
    ELSE [ok |-> TRUE, text |-> Trim(body.text), failed |-> ""]

\* the checks a whole-body response goes through (549-566, 993-1012,
\* 1146-1165, 1391-1408): the text it yields, or which check threw
parseBody(body) ==
    IF body.kind = "noCandidates" THEN [ok |-> FALSE, text |-> NoText, failed |-> "candidates"]
    ELSE IF body.kind = "noParts" THEN [ok |-> FALSE, text |-> NoText, failed |-> "parts"]
    ELSE IF body.text = NoText \/ Trim(body.text) = NoText
         THEN [ok |-> FALSE, text |-> NoText, failed |-> "text"]
         ELSE [ok |-> TRUE, text |-> Trim(body.text), failed |-> ""]

\* the Error getAIAnalysis / getPalmistryAnalysis throws for a 2xx body
apiBodyError(body) ==
    CASE parseBody(body).failed = "candidates" -> "API response has no candidates"
      [] parseBody(body).failed = "parts" -> "API response has no content parts"
      [] OTHER -> "API returned an empty analysis result"

\* the Error getServerStandardAnalysis / getServerVisionStandardAnalysis throws
serverStandardError(response) ==
    CASE response.kind = "rejected" -> "fetch failed"
      [] response.kind = "notOk" -> "server standard API call failed (HTTP status)"
      [] response.kind = "badJson" -> "response body is not JSON"
      [] parseBody(response).failed = "candidates" -> "server returned no valid data"
      [] parseBody(response).failed = "parts" -> "server returned malformed data"
      [] OTHER -> "server returned an empty analysis result"

\* what opening a stream can give: the fetch rejects (for the direct stream
\* also by its 30 s abort signal), a status outside 2xx, no body, a body
StreamResponses == {"rejected", "notOk", "noBody", "body"}

\* the Error a stream tier throws before its first read (640-647, 808-815)
streamOpenError(response) ==
    CASE response = "rejected" -> "fetch failed"
      [] response = "notOk" -> "stream API call failed (HTTP status)"
      [] OTHER -> "cannot get the response stream"

\* the Error a stream tier throws when reading ends: read() rejected, or
\* nothing but whitespace was accumulated (710-712, 864-868, 1334-1336)
streamEndError(done) ==
    IF done THEN "stream returned no valid data" ELSE "stream read failed"

\* the body of a stream response, summed up as it is read: `acc` and `emits`
\* are what the loop over its lines holds and passes to onUpdate when they
\* all come in one chunk, `ended` that a line that breaks that loop was among
\* them, `open` the line the last chunk left unfinished, `split` that a line
\* came in two chunks, `malformed` that a line was no JSON
NoBody == [acc |-> <<>>, emits |-> <<>>, ended |-> FALSE, open |-> <<>>,
           split |-> FALSE, malformed |-> FALSE]

\* ------------------------------------------------- leaving and suspending
\* no second request
\* no game engine has run
GamesIdle ==
    yaos = <<>> /\ hexagram = NoHexagram /\ birthInfo = NoBirth /\ chart = NoChart

\* no reader yet; response.body.getReader() locks the body to a new reader
\* (650, 812, 1262) and reader.releaseLock() in the `finally` around the
\* read loop gives the lock up (706-708, 860-862, 1330-1332)
NoReader == [acquired |-> 0, released |-> 0]
getReader(r) == [r EXCEPT !.acquired = @ + 1]
releaseLock_skipped(r) == r
releaseLock(r) == [r EXCEPT !.released = @ + 1]

NoPeer == [pc |-> "none", accumulatedText |-> <<>>, buffer |-> <<>>, reads |-> 0,
           sink |-> <<>>, result |-> <<>>]

Init ==
    /\ settings \in [apiKey : UserKeys, serverUrl : ServerUrls]
    /\ GEMINI_API_KEY \in ConfigKeys
    /\ ENABLE_STREAMING \in BOOLEAN
    /\ updates = 0
    /\ op = "none" /\ master = "valid" /\ onUpdate = FALSE
    /\ image = NoImage
    /\ divinationData = Undefined /\ gameType = "" /\ userInfo = Undefined
    /\ prompt = <<>> /\ GamesIdle
    /\ pc = "idle" /\ frame = "none" /\ apiKey = <<>> /\ serverUrl = <<>>
    /\ accumulatedText = <<>> /\ buffer = <<>> /\ reads = 0 /\ wire = NoBody
    /\ calls = <<>> /\ checked = <<>> /\ sink = <<>>
    /\ outcome = "none" /\ result = NoText /\ error = ""
    /\ peer = NoPeer /\ reader = NoReader

\* the history so far, as the operators below pass it on
NoHistory == [calls |-> <<>>, checked |-> <<>>, sink |-> <<>>]
History == [calls |-> calls, checked |-> checked, sink |-> sink]
issued(h, request) == [h EXCEPT !.calls = Append(h.calls, request)]
settled(h, out) == [h EXCEPT !.calls = Settle(h.calls, out)]
failed(h, err) == [h EXCEPT !.calls = Failed(h.calls, err)]
keyChecked(h, k) == [h EXCEPT !.checked = Append(h.checked, Check(k, Len(h.calls)))]
emitted(h, strings) == [h EXCEPT !.sink = h.sink \o strings]

\* the request ends: the exported function returned `res` or threw `err`
Terminal(o, res, err, h) ==
    /\ pc' = "done" /\ outcome' = o /\ result' = res /\ error' = err
    /\ calls' = h.calls /\ checked' = h.checked /\ sink' = h.sink
    /\ accumulatedText' = <<>> /\ buffer' = <<>> /\ wire' = NoBody
    /\ UNCHANGED <<reads, locals>>

\* function fr suspends at await p, with locals k and u
Await(p, fr, k, u, h) ==
    /\ pc' = p /\ frame' = fr /\ apiKey' = k /\ serverUrl' = u
    /\ calls' = h.calls /\ checked' = h.checked /\ sink' = h.sink
    /\ accumulatedText' = <<>> /\ buffer' = <<>> /\ wire' = NoBody
    /\ UNCHANGED <<reads, outcome, result, error>>

\* an Error leaves an exported function: its catch block rethrows it
\* (895-903, 1048-1053, 1203-1208, 1551-1559)
Throw(msg, h) == Terminal("failure", NoText, msg, h)

\* function fr returns res; getAIAnalysis called from the catch block of
\* getAIAnalysisStream returns into the per-character typewriter (874-892),
\* getPalmistryAnalysis called from getPalmistryAnalysisStream into the
\* chunked one (1524-1549)
Return(fr, res, h) ==
    IF fr = "getAIAnalysis" /\ op = "getAIAnalysisStream"
    THEN Terminal("success", res, "", emitted(h, simulateChars(onUpdate, res)))
    ELSE IF fr = "getPalmistryAnalysis" /\ op = "getPalmistryAnalysisStream"
    THEN Terminal("success", res, "", emitted(h, simulateChunks(onUpdate, res)))
    ELSE Terminal("success", res, "", h)

\* ------------------------------------------------------- the direct tier
\* getPalmistryAnalysis from its first line to axios.post (1086-1144); it
\* reads the settings itself; img is its image arguments
palmistryAnalysis(m, img, h) ==
    LET h1 == keyChecked(h, settings.apiKey) IN
    IF ~hasValidApiKey(GEMINI_API_KEY, settings.apiKey)
    THEN Throw("configure a valid API key in the config file or the settings", h1)
    ELSE IF ~isValidMaster(m)
    THEN Throw("master configuration invalid", h1)
    ELSE IF img.data = <<>> \/ Trim(img.data) = <<>>
    THEN Throw("image data must not be empty", h1)
    ELSE IF img.mimeType = "" \/ ~isSupportedImageType(img.mimeType)
    THEN Throw("invalid image format", h1)
    ELSE Await("visionPost", "getPalmistryAnalysis", settings.apiKey, <<>>,
               issued(h1, Request("generateContent",
                                  getActiveApiKey(GEMINI_API_KEY, settings.apiKey))))

\* keyError without the serverUrl branch
keyError_plain(fr, u) == "configure a valid API key first"

\* the Error thrown when hasValidApiKey fails after the proxy block
\* (773-777, 952-956, 1516-1520)
keyError(fr, u) ==
    IF serverConfigured(u) THEN "server unavailable and no valid API key"
    ELSE IF fr = "getPalmistryAnalysisStream"
    THEN "configure a valid API key for palmistry first"
    ELSE "configure a valid API key first"

\* the code after the proxy block of function fr, up to its next await:
\* getAIAnalysisStream 767-806, getAIAnalysis 949-991,
\* getPalmistryAnalysisStream 1511-1524
directTier(fr, k, u, h) ==
    LET h1 == keyChecked(h, k) IN
    IF ~hasValidApiKey(GEMINI_API_KEY, k)
    THEN Throw(keyError(fr, u), h1)
    ELSE IF fr = "getAIAnalysisStream"
    THEN Await("streamFetch", fr, k, u,
               issued(h1, Request("streamGenerateContent",
                                  getActiveApiKey(GEMINI_API_KEY, k))))
    ELSE IF fr = "getPalmistryAnalysisStream"
    THEN palmistryAnalysis(master', image', h1)
    ELSE IF ~isValidMaster(master')
    THEN Throw("master configuration invalid", h1)
    ELSE Await("axiosPost", fr, k, u, issued(h1, Request("generateContent", k)))

\* ------------------------------------------------------- the proxy tier
\* `if (serverUrl && serverUrl.trim())`: the probe is issued, or the block is
\* skipped (750-754, 929-933, 1494-1498)
proxyTier(fr, k, u, h) ==
    IF serverConfigured(u)
    THEN Await("checkServerHealth", fr, k, u, issued(h, Request("api/health", NoText)))
    ELSE directTier(fr, k, u, h)

\* the proxy catch block rethrowing what it caught
serverCatch_rethrows(serverError, h) == Throw(serverError, settled(h, "fail"))

\* `catch (serverError)` around the proxy calls: the Error is logged and the
\* function goes on below the block (762-765, 944-946, 1506-1508)
serverCatch(serverError, h) ==
    directTier(frame, apiKey, serverUrl, settled(h, "fail"))

\* the stream catch block rethrowing what it caught
streamCatch_rethrows(streamError, h) == Throw(streamError, settled(h, "fail"))

\* the stream catch block awaiting something that never settles instead of
\* falling back
streamCatch_hangs(streamError, h) ==
    Await("never", frame, apiKey, serverUrl, settled(h, "fail"))

\* `catch (streamError)` of getAIAnalysisStream: the Error is logged and
\* getAIAnalysis is called, which reads the settings again (870-874, 922-929)
streamCatch(streamError, h) ==
    proxyTier("getAIAnalysis", settings.apiKey, settings.serverUrl,
              settled(h, "fail"))

\* the exported functions, from the call to the first await
getAIAnalysisStream(m, ou) ==
    /\ pc = "idle"
    /\ op' = "getAIAnalysisStream" /\ master' = m /\ onUpdate' = ou
    /\ UNCHANGED <<settings, config, peer, reader, updates, image, prompting, games, reads>>
    /\ IF ~isValidMaster(m)
       THEN Throw("master configuration invalid", NoHistory)
       ELSE proxyTier("getAIAnalysisStream", settings.apiKey, settings.serverUrl,
                      NoHistory)

getAIAnalysis(m) ==
    /\ pc = "idle"
    /\ op' = "getAIAnalysis" /\ master' = m /\ onUpdate' = FALSE
    /\ UNCHANGED <<settings, config, peer, reader, updates, image, prompting, games, reads>>
    /\ proxyTier("getAIAnalysis", settings.apiKey, settings.serverUrl, NoHistory)

\* getPalmistryAnalysisStream builds the prompt first (1482-1494)
getPalmistryAnalysisStream(m, img, ou) ==
    /\ pc = "idle"
    /\ op' = "getPalmistryAnalysisStream" /\ master' = m /\ onUpdate' = ou
    /\ image' = img
    /\ UNCHANGED <<settings, config, peer, reader, updates, prompting, games, reads>>
    /\ IF buildPromptThrows(m)
       THEN Throw("TypeError", NoHistory)
       ELSE proxyTier("getPalmistryAnalysisStream", settings.apiKey,
                      settings.serverUrl, NoHistory)

getPalmistryAnalysis(m, img) ==
    /\ pc = "idle"
    /\ op' = "getPalmistryAnalysis" /\ master' = m /\ onUpdate' = FALSE
    /\ image' = img
    /\ UNCHANGED <<settings, config, peer, reader, updates, prompting, games, reads>>
    /\ palmistryAnalysis(m, img, NoHistory)

\* the enableStreaming each function passes to getServerAnalysis or
\* getServerVisionAnalysis (738/758, 940, 1485/1502)
streams(fr) == fr # "getAIAnalysis" /\ ENABLE_STREAMING

\* the proxy endpoint function fr posts to once the probe is healthy
serverEndpoint(fr) ==
    IF fr = "getPalmistryAnalysisStream"
    THEN IF streams(fr) THEN "api/gemini/vision-stream" ELSE "api/gemini/vision"
    ELSE IF streams(fr) THEN "api/gemini/stream" ELSE "api/gemini/generate"

\* the proxy block calling the proxy whatever the probe gave
healthReturns_ignoresResult(response) ==
    /\ pc = "checkServerHealth"
    /\ UNCHANGED <<settings, config, peer, reader, updates, args, reads>>
    /\ Await(IF streams(frame) THEN "serverStreamFetch" ELSE "serverStandardFetch",
             frame, apiKey, serverUrl,
             issued(settled(History, IF checkServerHealth(response) THEN "ok" ELSE "fail"),
                    Request(serverEndpoint(frame), NoText)))

\* the probe answers (754-761, 933-943, 1498-1505); in getAIAnalysis the
\* prompt is built inside the proxy try block
healthReturns(response) ==
    /\ pc = "checkServerHealth"
    /\ UNCHANGED <<settings, config, peer, reader, updates, args, reads>>
    /\ IF ~checkServerHealth(response)
       THEN directTier(frame, apiKey, serverUrl, settled(History, "fail"))
       ELSE IF frame = "getAIAnalysis" /\ buildPromptThrows(master)
       THEN directTier(frame, apiKey, serverUrl, settled(History, "ok"))
       ELSE Await(IF streams(frame) THEN "serverStreamFetch" ELSE "serverStandardFetch",
                  frame, apiKey, serverUrl,
                  issued(settled(History, "ok"), Request(serverEndpoint(frame), NoText)))

\* the proxy block awaiting getServerAnalysis without returning its result
serverStandardReturns_noReturn(response) ==
    /\ pc = "serverStandardFetch"
    /\ UNCHANGED <<settings, config, peer, reader, updates, args, reads>>
    /\ IF response.kind \in {"rejected", "notOk", "badJson"} \/ ~parseBody(response).ok
       THEN serverCatch(serverStandardError(response), History)
       ELSE directTier(frame, apiKey, serverUrl, settled(History, "ok"))

\* getServerStandardAnalysis answers; getServerAnalysis replays the text to
\* the sink, which getAIAnalysis does not pass on (522-567, 586-614, 940);
\* getServerVisionStandardAnalysis and getServerVisionAnalysis are the same
\* code on the vision endpoint (1379-1409, 1433-1460)
serverStandardReturns(response) ==
    /\ pc = "serverStandardFetch"
    /\ UNCHANGED <<settings, config, peer, reader, updates, args, reads>>
    /\ IF response.kind \in {"rejected", "notOk", "badJson"} \/ ~parseBody(response).ok
       THEN serverCatch(serverStandardError(response), History)
       ELSE LET text == parseBody(response).text
                passed == frame # "getAIAnalysis" /\ onUpdate
            IN  Return(frame, text,
                       emitted(settled(History, "ok"), simulateChunks(passed, text)))

\* axios.post of getAIAnalysis answers (986-1054)
axiosPostReturns(response) ==
    /\ pc = "axiosPost"
    /\ UNCHANGED <<settings, config, peer, reader, updates, args, reads>>
    /\ IF response \in AxiosErrors
       THEN Throw(classify(response), failed(History, classify(response)))
       ELSE IF ~parseBody(response).ok
       THEN Throw(apiBodyError(response), failed(History, apiBodyError(response)))
       ELSE Return(frame, parseBody(response).text, settled(History, "ok"))

\* ------------------------------------------------------ the proxy stream
StreamTexts == {<<"a">>, <<" ">>, <<"a", "a">>}

\* one line of the event stream, by what the decoder makes of it: a record
\* with a string `content` (also the empty string), {done: true},
\* `data: [DONE]`, a record with an `error` field, a payload that is no
\* JSON, a line without the data prefix
ServerLines ==
    {[kind |-> "content", text |-> t] : t \in StreamTexts \cup {NoText}}
    \cup {[kind |-> k, text |-> NoText] : k \in {"done", "DONE", "error", "malformed", "other"}}

\* the parse catch dropping what was accumulated before the line that failed
serverLine_malformedResets(acc, line) ==
    IF line.kind = "malformed" THEN NoText
    ELSE IF line.kind = "content" /\ line.text # NoText THEN acc \o line.text
    ELSE acc

\* the proxy decoder taking a record's content as the whole text
serverLine_replaces(acc, line) ==
    IF line.kind = "content" /\ line.text # NoText THEN line.text ELSE acc

\* the body of `for (const line of lines)` in getServerStreamAnalysis
\* (663-704): only a content record reaches the accumulation; the Error
\* thrown for an error record is caught by the parse catch around it
serverLine(acc, line) ==
    IF line.kind = "content" /\ line.text # NoText THEN acc \o line.text ELSE acc

\* fetch of getServerStreamAnalysis / getServerVisionStreamAnalysis answers
\* (629-652, 1246-1264)
serverStreamReturns(response) ==
    /\ pc = "serverStreamFetch"
    /\ UNCHANGED <<settings, config, peer, updates, args, reads>>
    /\ IF response # "body"
       THEN serverCatch(streamOpenError(response), History) /\ UNCHANGED reader
       ELSE /\ pc' = "serverStreamRead"
            /\ reader' = getReader(reader)
            /\ accumulatedText' = <<>> /\ buffer' = <<>> /\ wire' = NoBody
            /\ UNCHANGED <<locals, history, outcome, result, error>>

\* `break` in that loop: the sentinel and the completion record (670-672,
\* 678-681) leave the loop over the lines of the chunk
serverLineBreaks(line) == line.kind \in {"DONE", "done"}

RECURSIVE serverLines(_, _)
\* `for (const line of lines)` over the lines of one chunk (663-704): the
\* accumulation after it and the strings passed to onUpdate
serverLines(acc, lines) ==
    IF lines = <<>> \/ serverLineBreaks(Head(lines))
    THEN [acc |-> acc, emits |-> <<>>]
    ELSE LET a == serverLine(acc, Head(lines))
             r == serverLines(a, Tail(lines))
         IN  [acc |-> r.acc,
              emits |-> (IF a # acc THEN <<a>> ELSE <<>>) \o r.emits]

\* a chunk of an event stream, as the lines it carries: `cut` when it starts
\* with the rest of the line the chunk before left open, `open` when it
\* ends inside its last line.  A chunk carries one line, or a line and a
\* content line after it, or the first bytes of a content line, or the rest
\* of one
ChunksOf(Lines, first, next) ==
    {[cut |-> FALSE, lines |-> <<l>>, open |-> FALSE] : l \in Lines}
    \cup {[cut |-> FALSE, lines |-> <<l, next>>, open |-> FALSE] : l \in first}
    \cup {[cut |-> FALSE, lines |-> <<next>>, open |-> TRUE],
          [cut |-> TRUE, lines |-> <<>>, open |-> FALSE]}

ServerChunks ==
    ChunksOf(ServerLines,
             {l \in ServerLines : l.kind \in {"DONE", "done", "error", "malformed"}},
             [kind |-> "content", text |-> <<"a">>])

\* the lines of a chunk that chunkStr.split('\n') yields whole (661): the
\* rest of a cut line has no `data: ` prefix and the first bytes of an open
\* line are no JSON, so neither reaches the accumulation
wholeLines(chunk) ==
    IF chunk.open THEN SubSeq(chunk.lines, 1, Len(chunk.lines) - 1) ELSE chunk.lines

\* the lines the body has finished once the chunk has arrived: the open
\* line, now complete, and the whole lines of the chunk
finished(b, chunk) == (IF chunk.cut THEN b.open ELSE <<>>) \o wholeLines(chunk)

\* the body once the chunk has arrived; d is the loop of the decoder run on
\* the finished lines from b.acc, ends whether one of them breaks that loop
carried(b, chunk, d, ends) ==
    [acc |-> IF b.ended THEN b.acc ELSE d.acc,
     emits |-> IF b.ended \/ ~onUpdate THEN b.emits ELSE b.emits \o d.emits,
     ended |-> b.ended \/ ends,
     open |-> IF chunk.open THEN <<chunk.lines[Len(chunk.lines)]>> ELSE <<>>,
     split |-> b.split \/ chunk.cut,
     malformed |-> b.malformed
                   \/ \E i \in DOMAIN finished(b, chunk) :
                         finished(b, chunk)[i].kind = "malformed"]

\* reader.read() gives a chunk (656-704)
serverStreamChunk(chunk) ==
    /\ pc = "serverStreamRead"
    /\ frame = "getAIAnalysisStream"
    /\ reads < MaxReads
    /\ chunk.cut = (wire.open # <<>>)
    /\ reads' = reads + 1
    /\ wire' = carried(wire, chunk, serverLines(wire.acc, finished(wire, chunk)),
                       \E i \in DOMAIN finished(wire, chunk) :
                           serverLineBreaks(finished(wire, chunk)[i]))
    /\ accumulatedText' = serverLines(accumulatedText, wholeLines(chunk)).acc
    /\ sink' = IF onUpdate
               THEN sink \o serverLines(accumulatedText, wholeLines(chunk)).emits
               ELSE sink
    /\ UNCHANGED <<settings, config, peer, reader, updates, args, pc, locals, buffer, calls,
                   checked, outcome, result, error>>

\* the vision stream's lines: a record with `text`, one with `finalText`,
\* one with a finishReason or status "completed" (with or without a
\* finalText beside it), `data: [DONE]`, an error record, no JSON, no prefix
VisionLines ==
    {[kind |-> k, text |-> t] : k \in {"text", "finalText", "finishFinalText"},
                                t \in StreamTexts}
    \cup {[kind |-> k, text |-> NoText] :
             k \in {"finish", "DONE", "error", "malformed", "other"}}

\* String.prototype.includes
includes(str, sub) ==
    \E i \in 0..(Len(str) - Len(sub)) : SubSeq(str, i + 1, i + Len(sub)) = sub

\* the body of `for (const line of lines)` in getServerVisionStreamAnalysis
\* (1275-1327): [acc: the accumulation after the line, emit: onUpdate called]
visionLine(acc, line) ==
    IF line.kind = "text" /\ line.text # NoText
    THEN [acc |-> acc \o line.text, emit |-> TRUE]
    ELSE IF line.kind = "finalText" /\ line.text # NoText
    THEN [acc |-> IF includes(acc, line.text) THEN acc ELSE acc \o line.text,
          emit |-> TRUE]
    ELSE [acc |-> acc, emit |-> FALSE]

\* `break` in that loop (1282-1284, 1290-1292)
visionLineBreaks(line) == line.kind \in {"DONE", "finish", "finishFinalText"}

RECURSIVE visionLines(_, _)
\* `for (const line of lines)` over the lines of one chunk (1275-1327)
visionLines(acc, lines) ==
    IF lines = <<>> \/ visionLineBreaks(Head(lines))
    THEN [acc |-> acc, emits |-> <<>>]
    ELSE LET v == visionLine(acc, Head(lines))
             r == visionLines(v.acc, Tail(lines))
         IN  [acc |-> r.acc,
              emits |-> (IF v.emit THEN <<v.acc>> ELSE <<>>) \o r.emits]

VisionChunks ==
    ChunksOf(VisionLines,
             {l \in VisionLines : l.kind \in {"DONE", "finish", "error", "malformed"}},
             [kind |-> "text", text |-> <<"a">>])

\* reader.read() gives a chunk (1268-1327)
visionStreamChunk(chunk) ==
    /\ pc = "serverStreamRead"
    /\ frame = "getPalmistryAnalysisStream"
    /\ reads < MaxReads
    /\ chunk.cut = (wire.open # <<>>)
    /\ reads' = reads + 1
    /\ wire' = carried(wire, chunk, visionLines(wire.acc, finished(wire, chunk)),
                       \E i \in DOMAIN finished(wire, chunk) :
                           visionLineBreaks(finished(wire, chunk)[i]))
    /\ accumulatedText' = visionLines(accumulatedText, wholeLines(chunk)).acc
    /\ sink' = IF onUpdate
               THEN sink \o visionLines(accumulatedText, wholeLines(chunk)).emits
               ELSE sink
    /\ UNCHANGED <<settings, config, peer, reader, updates, args, pc, locals, buffer, calls,
                   checked, outcome, result, error>>

\* reader.read() gives done, or rejects (706-714, then 762-765; the vision
\* stream: 1330-1338, then 1506-1508)
serverStreamEnds(done) ==
    /\ pc = "serverStreamRead"
    /\ reader' = releaseLock(reader)
    /\ UNCHANGED <<settings, config, peer, updates, args, reads>>
    /\ IF ~done \/ accumulatedText = NoText \/ Trim(accumulatedText) = NoText
       THEN serverCatch(streamEndError(done), History)
       ELSE Return(frame, Trim(accumulatedText), settled(History, "ok"))

\* ----------------------------------------------------- the direct stream
\* the newline-delimited body as tokens: a JSON object with candidate text
\* and/or a finishReason, or bytes that are no JSON
StreamTokens ==
    {[kind |-> "record", text |-> t, finish |-> FALSE] : t \in StreamTexts}
    \cup {[kind |-> "record", text |-> NoText, finish |-> TRUE],
          [kind |-> "malformed", text |-> NoText, finish |-> FALSE]}

\* a chunk: at most one token, then a newline or not
StreamChunks ==
    {[toks |-> <<t>>, nl |-> n] : t \in StreamTokens, n \in BOOLEAN}
    \cup {[toks |-> <<>>, nl |-> TRUE]}

\* the direct decoder appending a record's text as the proxy decoders do
streamLine_appends(fullText, line) ==
    IF Len(line) = 1 /\ line[1].kind = "record" /\ line[1].text # NoText
    THEN fullText \o line[1].text
    ELSE fullText

\* the body of `for (const line of lines)` of the direct stream (833-858): a
\* line parses when it is exactly one JSON object; its text replaces fullText
streamLine(fullText, line) ==
    IF Len(line) = 1 /\ line[1].kind = "record" /\ line[1].text # NoText
    THEN line[1].text
    ELSE fullText

\* `if (!trimmedLine) continue` and JSON.parse (836-840): an empty line is
\* passed over, a line holding exactly one JSON object parses
parses(line) == line = <<>> \/ (Len(line) = 1 /\ line[1].kind = "record")

\* fetch of the direct stream answers (799-819)
streamFetchReturns(response) ==
    /\ pc = "streamFetch"
    /\ UNCHANGED <<settings, config, peer, updates, args, reads>>
    /\ IF response # "body"
       THEN streamCatch(streamOpenError(response), History) /\ UNCHANGED reader
       ELSE /\ pc' = "streamRead"
            /\ reader' = getReader(reader)
            /\ accumulatedText' = <<>> /\ buffer' = <<>> /\ wire' = NoBody
            /\ UNCHANGED <<locals, history, outcome, result, error>>

\* reader.read() gives a chunk (823-858): buffer += chunk, the complete lines
\* are decoded, the open line stays in the buffer
streamChunk(chunk) ==
    /\ pc = "streamRead"
    /\ reads < MaxReads
    /\ reads' = reads + 1
    /\ LET line == buffer \o chunk.toks
           emits == chunk.nl /\ streamLine(<<>>, line) # <<>>
       IN  /\ buffer' = IF chunk.nl THEN <<>> ELSE line
           /\ accumulatedText' = IF chunk.nl THEN streamLine(accumulatedText, line)
                                 ELSE accumulatedText
           /\ sink' = IF onUpdate /\ emits THEN Append(sink, accumulatedText') ELSE sink
           /\ wire' = [wire EXCEPT !.malformed = @ \/ (chunk.nl /\ ~parses(line))]
    /\ UNCHANGED <<settings, config, peer, reader, updates, args, pc, locals, calls, checked,
                   outcome, result, error>>

\* reader.read() gives done, or rejects (also on the abort signal): 860-874
streamEnds(done) ==
    /\ pc = "streamRead"
    /\ reader' = releaseLock(reader)
    /\ UNCHANGED <<settings, config, peer, updates, args, reads>>
    /\ IF done /\ accumulatedText # NoText /\ Trim(accumulatedText) # NoText
       THEN Return(frame, Trim(accumulatedText), settled(History, "ok"))
       ELSE streamCatch(streamEndError(done), History)

\* the catch block of getPalmistryAnalysis: the message of the Error thrown
classifyVision(e) ==
    IF e.response # 0
    THEN CASE e.response = 400 -> "API request error"
           [] e.response = 401 -> "API key invalid"
           [] e.response = 403 -> "API access denied or Vision API not enabled"
           [] e.response = 413 -> "image file too large"
           [] e.response = 429 -> "API rate limit exceeded"
           [] e.response = 500 -> "Gemini internal server error"
           [] OTHER -> "API call failed (HTTP status)"
    ELSE IF e.request THEN "network connection failed"
    ELSE IF e.code = "ECONNABORTED" THEN "image analysis timed out"
    ELSE "rethrown"

\* axios.post of getPalmistryAnalysis answers (1139-1209)
visionPostReturns(response) ==
    /\ pc = "visionPost"
    /\ UNCHANGED <<settings, config, peer, reader, updates, args, reads>>
    /\ IF response \in AxiosErrors
       THEN Throw(classifyVision(response), failed(History, classifyVision(response)))
       ELSE IF ~parseBody(response).ok
       THEN Throw(apiBodyError(response), failed(History, apiBodyError(response)))
       ELSE Return(frame, parseBody(response).text, settled(History, "ok"))

\* ---------------------------------------------------------- the settings
\* updateSettings({apiKey}) and importSettings, from the settings page
updateSettings(k, u) ==
    /\ pc \notin {"idle", "done"}
    /\ updates < MaxUpdates
    /\ updates' = updates + 1
    /\ settings' = [apiKey |-> k, serverUrl |-> u]
    /\ settings' # settings
    /\ UNCHANGED <<config, peer, reader, args, pc, locals, stream, history, outcome, result,
                   error>>

Next ==
    \/ \E m \in Masters, ou \in BOOLEAN : getAIAnalysisStream(m, ou)
    \/ \E m \in Masters : getAIAnalysis(m)
    \/ \E m \in Masters, img \in Images, ou \in BOOLEAN :
          getPalmistryAnalysisStream(m, img, ou)
    \/ \E m \in Masters, img \in Images : getPalmistryAnalysis(m, img)
    \/ \E r \in HealthResponses : healthReturns(r)
    \/ \E r \in FetchResponses : serverStandardReturns(r)
    \/ \E r \in StreamResponses : serverStreamReturns(r)
    \/ \E ch \in ServerChunks : serverStreamChunk(ch)
    \/ \E ch \in VisionChunks : visionStreamChunk(ch)
    \/ \E d \in BOOLEAN : serverStreamEnds(d)
    \/ \E r \in StreamResponses : streamFetchReturns(r)
    \/ \E ch \in StreamChunks : streamChunk(ch)
    \/ \E d \in BOOLEAN : streamEnds(d)
    \/ \E r \in AxiosErrors \cup Bodies : axiosPostReturns(r)
    \/ \E r \in AxiosErrors \cup Bodies : visionPostReturns(r)

\* a request under settings that nobody changes while it runs
Spec == Init /\ [][Next]_vars

\* the same, with the settings page saving while the request runs
NextSettings ==
    \/ Next
    \/ \E k \in UserKeys, u \in ServerUrls : updateSettings(k, u)

SpecSettings == Init /\ [][NextSettings]_vars

\* every await is resumed: each request answers, fails or times out
LiveSpec == Spec /\ WF_vars(Next)

\* ------------------------------------------------- the typewriter alone
\* the typewriter code of a function that has just been handed `result` by a
\* whole-body tier: every text up to MaxFullText, with and without a sink
FullTexts == UNION {[1..n -> Chars] : n \in 0..MaxFullText}

TypewriterInit ==
    /\ settings = [apiKey |-> UserKey, serverUrl |-> <<>>]
    /\ GEMINI_API_KEY = EmptyKey /\ ENABLE_STREAMING = FALSE
    /\ updates = 0
    /\ op = "getAIAnalysisStream" /\ master = "valid" /\ onUpdate \in BOOLEAN
    /\ image = NoImage
    /\ divinationData = Undefined /\ gameType = "" /\ userInfo = Undefined
    /\ prompt = <<>> /\ GamesIdle
    /\ pc = "typewriter" /\ frame \in {"getServerAnalysis", "getAIAnalysisStream"}
    /\ apiKey = UserKey /\ serverUrl = <<>>
    /\ accumulatedText = <<>> /\ buffer = <<>> /\ reads = 0 /\ wire = NoBody
    /\ calls = <<>> /\ checked = <<>> /\ sink = <<>>
    /\ outcome = "none" /\ result \in FullTexts /\ error = ""
    /\ peer = NoPeer /\ reader = NoReader

\* getServerAnalysis 591-614 (the same code at 1437-1460 and 1527-1549)
typewriterChunks ==
    /\ pc = "typewriter" /\ frame = "getServerAnalysis"
    /\ sink' = sink \o simulateChunks(onUpdate, result)
    /\ pc' = "done" /\ outcome' = "success"
    /\ UNCHANGED <<settings, config, peer, reader, updates, args, locals, stream, calls,
                   checked, result, error>>

\* getAIAnalysisStream 877-892
typewriterChars ==
    /\ pc = "typewriter" /\ frame = "getAIAnalysisStream"
    /\ sink' = sink \o simulateChars(onUpdate, result)
    /\ pc' = "done" /\ outcome' = "success"
    /\ UNCHANGED <<settings, config, peer, reader, updates, args, locals, stream, calls,
                   checked, result, error>>

TypewriterNext == typewriterChunks \/ typewriterChars

TypewriterSpec == TypewriterInit /\ [][TypewriterNext]_vars

\* ------------------------------------------------------------ the prompt
\* buildPrompt by itself: called twice with the same arguments, each of them
\* drawn from the values a caller can pass with a valid persona
PromptInit ==
    /\ settings = [apiKey |-> UserKey, serverUrl |-> <<>>]
    /\ GEMINI_API_KEY = EmptyKey /\ ENABLE_STREAMING = FALSE
    /\ updates = 0
    /\ op = "buildPrompt" /\ master \in PromptMasters /\ onUpdate = FALSE
    /\ image = NoImage
    /\ divinationData \in Payloads /\ gameType \in GameTypes
    /\ userInfo \in UserInfos /\ prompt = <<>> /\ GamesIdle
    /\ pc = "buildPrompt" /\ frame = "buildPrompt"
    /\ apiKey = UserKey /\ serverUrl = <<>>
    /\ accumulatedText = <<>> /\ buffer = <<>> /\ reads = 0 /\ wire = NoBody
    /\ calls = <<>> /\ checked = <<>> /\ sink = <<>>
    /\ outcome = "none" /\ result = NoText /\ error = ""
    /\ peer = NoPeer /\ reader = NoReader

\* the first call (746, 938, 965, 1109, 1488)
promptBuilt ==
    /\ pc = "buildPrompt"
    /\ prompt' = buildPrompt(master, divinationData, gameType, userInfo)
    /\ pc' = "built"
    /\ UNCHANGED <<settings, config, peer, reader, updates, op, master, onUpdate, image,
                   divinationData, gameType, userInfo, games, locals, stream, history,
                   outcome, result, error>>

\* a second call with the same arguments
promptRebuilt ==
    /\ pc = "built"
    /\ prompt' = buildPrompt(master, divinationData, gameType, userInfo)
    /\ pc' = "rebuilt"
    /\ UNCHANGED <<settings, config, peer, reader, updates, op, master, onUpdate, image,
                   divinationData, gameType, userInfo, games, locals, stream, history,
                   outcome, result, error>>

PromptNext == promptBuilt \/ promptRebuilt

PromptSpec == PromptInit /\ [][PromptNext]_vars

\* ------------------------------------------------------ two requests
\* two stream decodes in flight at once: the request of the state above and
\* a second call, `peer`, with locals of its own (`let accumulatedText`,
\* `let fullText`, `let buffer`: 652, 818-819), each reading the body of its
\* own response; both were called with a sink
ConcurrentInit ==
    /\ settings = [apiKey |-> UserKey, serverUrl |-> <<"h">>]
    /\ GEMINI_API_KEY = EmptyKey /\ ENABLE_STREAMING = TRUE
    /\ updates = 0
    /\ op = "getAIAnalysisStream" /\ master = "valid" /\ onUpdate = TRUE
    /\ image = NoImage
    /\ divinationData = Undefined /\ gameType = "" /\ userInfo = Undefined
    /\ prompt = <<>> /\ GamesIdle
    /\ pc \in {"serverStreamRead", "streamRead"} /\ frame = "getAIAnalysisStream"
    /\ apiKey = UserKey /\ serverUrl = <<"h">>
    /\ accumulatedText = <<>> /\ buffer = <<>> /\ reads = 0 /\ wire = NoBody
    /\ calls = <<>> /\ checked = <<>> /\ sink = <<>>
    /\ outcome = "none" /\ result = NoText /\ error = ""
    /\ \E p \in {"serverStreamRead", "streamRead"} : peer = [NoPeer EXCEPT !.pc = p]
    /\ reader = getReader(NoReader)

\* the chunks the two proxy streams deliver here: one whole line each
OneLineChunks == {ch \in ServerChunks : ~ch.cut /\ ~ch.open /\ Len(ch.lines) = 1}

\* the peer's decode with accumulatedText kept at module level, where the
\* other request's decode reads and writes it too
peerServerStreamChunk_sharedAccumulator(chunk) ==
    /\ peer.pc = "serverStreamRead"
    /\ peer.reads < MaxReads
    /\ accumulatedText' = serverLines(accumulatedText, chunk.lines).acc
    /\ peer' = [peer EXCEPT
                   !.reads = @ + 1,
                   !.accumulatedText = accumulatedText',
                   !.sink = @ \o serverLines(accumulatedText, chunk.lines).emits]
    /\ UNCHANGED <<settings, config, reader, updates, args, pc, locals, buffer, reads, wire,
                   history, outcome, result, error>>

\* the peer's reader.read() gives a chunk of its proxy stream (656-704)
peerServerStreamChunk(chunk) ==
    /\ peer.pc = "serverStreamRead"
    /\ peer.reads < MaxReads
    /\ peer' = [peer EXCEPT
                   !.reads = @ + 1,
                   !.accumulatedText = serverLines(@, chunk.lines).acc,
                   !.sink = @ \o serverLines(peer.accumulatedText, chunk.lines).emits]
    /\ UNCHANGED <<settings, config, reader, updates, args, pc, locals, stream, history,
                   outcome, result, error>>

\* the peer's reader.read() gives a chunk of its direct stream (823-858)
peerStreamChunk(chunk) ==
    /\ peer.pc = "streamRead"
    /\ peer.reads < MaxReads
    /\ LET line == peer.buffer \o chunk.toks IN
       peer' = [peer EXCEPT
                   !.reads = @ + 1,
                   !.buffer = IF chunk.nl THEN <<>> ELSE line,
                   !.accumulatedText = IF chunk.nl THEN streamLine(@, line) ELSE @,
                   !.sink = IF chunk.nl /\ streamLine(<<>>, line) # <<>>
                            THEN Append(@, streamLine(peer.accumulatedText, line))
                            ELSE @]
    /\ UNCHANGED <<settings, config, reader, updates, args, pc, locals, stream, history,
                   outcome, result, error>>

\* the peer's reader.read() gives done: it returns what it accumulated
\* (706-714, 860-866)
peerStreamEnds ==
    /\ peer.pc \in {"serverStreamRead", "streamRead"}
    /\ peer.accumulatedText # NoText /\ Trim(peer.accumulatedText) # NoText
    /\ peer' = [peer EXCEPT !.pc = "done", !.result = Trim(peer.accumulatedText)]
    /\ UNCHANGED <<settings, config, reader, updates, args, pc, locals, stream, history,
                   outcome, result, error>>

\* the request's own stream ends with a result (706-714, 860-866)
streamReturns ==
    /\ pc \in {"serverStreamRead", "streamRead"}
    /\ accumulatedText # NoText /\ Trim(accumulatedText) # NoText
    /\ reader' = releaseLock(reader)
    /\ UNCHANGED <<settings, config, peer, updates, args, reads>>
    /\ Return(frame, Trim(accumulatedText), History)

ConcurrentNext ==
    \/ \E ch \in OneLineChunks : serverStreamChunk(ch)
    \/ \E ch \in StreamChunks : streamChunk(ch)
    \/ streamReturns
    \/ \E ch \in OneLineChunks : peerServerStreamChunk(ch)
    \/ \E ch \in StreamChunks : peerStreamChunk(ch)
    \/ peerStreamEnds

ConcurrentSpec == ConcurrentInit /\ [][ConcurrentNext]_vars

\* ---------------------------------------------------- the game engines
\* no request of the service is running while an engine computes a payload
ServiceIdle ==
    /\ settings = [apiKey |-> UserKey, serverUrl |-> <<>>]
    /\ GEMINI_API_KEY = EmptyKey /\ ENABLE_STREAMING = FALSE
    /\ updates = 0
    /\ master = "valid" /\ onUpdate = FALSE /\ image = NoImage
    /\ divinationData = Undefined /\ gameType = "" /\ userInfo = Undefined
    /\ prompt = <<>>
    /\ apiKey = <<>> /\ serverUrl = <<>>
    /\ accumulatedText = <<>> /\ buffer = <<>> /\ reads = 0 /\ wire = NoBody
    /\ calls = <<>> /\ checked = <<>> /\ sink = <<>>
    /\ outcome = "none" /\ result = NoText /\ error = ""
    /\ peer = NoPeer /\ reader = NoReader

\* generateHexagram is called
LiuYaoInit ==
    /\ ServiceIdle
    /\ op = "generateHexagram" /\ pc = "generateYao" /\ frame = "generateHexagram"
    /\ yaos = <<>> /\ hexagram = NoHexagram
    /\ birthInfo = NoBirth /\ chart = NoChart

\* `yaos.push(generateYao())` in the loop of generateHexagram (133-136),
\* with the three tosses Math.random() decides (67-69, 78-80)
yaoGenerated ==
    /\ pc = "generateYao" /\ Len(yaos) < 6
    /\ \E toss1, toss2, toss3 \in COIN_VALUES :
          yaos' = Append(yaos, generateYao(toss1, toss2, toss3))
    /\ UNCHANGED <<settings, config, peer, reader, updates, op, master, onUpdate,
                   image, prompting, hexagram, birthInfo, chart, pc, locals,
                   stream, history, outcome, result, error>>

\* the loop is over: generateHexagram builds its result and returns (142-172)
hexagramReturned ==
    /\ pc = "generateYao" /\ Len(yaos) = 6
    /\ hexagram' = generateHexagram(yaos)
    /\ pc' = "done"
    /\ UNCHANGED <<settings, config, peer, reader, updates, op, master, onUpdate,
                   image, prompting, yaos, birthInfo, chart, locals, stream,
                   history, outcome, result, error>>

LiuYaoNext == yaoGenerated \/ hexagramReturned

LiuYaoSpec == LiuYaoInit /\ [][LiuYaoNext]_vars

\* generateBaZiChart is called with a birth
BaZiInit ==
    /\ ServiceIdle
    /\ op = "generateBaZiChart" /\ pc = "generateBaZiChart"
    /\ frame = "generateBaZiChart"
    /\ yaos = <<>> /\ hexagram = NoHexagram
    /\ birthInfo \in BirthInfos /\ chart = NoChart

\* generateBaZiChart returns (309-353)
chartReturned ==
    /\ pc = "generateBaZiChart"
    /\ chart' = generateBaZiChart(birthInfo)
    /\ pc' = "done"
    /\ UNCHANGED <<settings, config, peer, reader, updates, op, master, onUpdate,
                   image, prompting, yaos, hexagram, birthInfo, locals, stream,
                   history, outcome, result, error>>

BaZiNext == chartReturned

BaZiSpec == BaZiInit /\ [][BaZiNext]_vars

\* =================================================================== claims
Probe(i) == calls[i].ep = "api/health"
ProxyCall(i) == calls[i].ep \in ProxyEndpoints
DirectCall(i) == calls[i].ep \in DirectEndpoints
Last == Len(calls)

\* a present and well-formed key, as the claims state it
WellFormedKey(k) ==
    k # <<>> /\ Len(k) >= 20 /\ SubSeq(k, 1, 4) = <<"A", "I", "z", "a">>

\* the Errors of the tiers whose catch block goes on to the next tier
TierErrors ==
    {serverStandardError(r) : r \in FetchResponses}
    \cup {streamOpenError(r) : r \in StreamResponses}
    \cup {streamEndError(d) : d \in BOOLEAN}

\* the Errors thrown before any request of the function that throws them
ValidationErrors ==
    {"master configuration invalid", "TypeError",
     "server unavailable and no valid API key",
     "configure a valid API key first",
     "configure a valid API key for palmistry first",
     "configure a valid API key in the config file or the settings",
     "image data must not be empty", "invalid image format"}

\* C1 as stated: once a health probe of the request has returned ok, the
\* request is served by the proxy and no request to the direct provider
\* endpoints is issued at any point of it.
C1_HealthyProbeNeverDirect ==
    (\E i \in DOMAIN calls : Probe(i) /\ calls[i].out = "ok")
        => /\ \A j \in DOMAIN calls : ~DirectCall(j)
           /\ pc = "done" => outcome = "success" /\ ProxyCall(Last)

\* C1 amended: after a health probe that returned ok the next request issued
\* is the proxy generation call; if that call succeeds the request returns
\* its text and nothing more is issued; a later request is issued only when
\* that proxy call failed.
C1_HealthyProbeThenProxy ==
    \A i \in DOMAIN calls :
        Probe(i) /\ calls[i].out = "ok" /\ i < Last
            => /\ ProxyCall(i + 1)
               /\ calls[i + 1].out = "ok" => (Last = i + 1 /\ outcome = "success")
               /\ Last > i + 1 => calls[i + 1].out = "fail"

C1_Witness ==
    /\ outcome = "success" /\ Last = 2
    /\ Probe(1) /\ calls[1].out = "ok" /\ ProxyCall(2) /\ calls[2].out = "ok"

\* C2 as stated: once a proxy generation call of the request has failed, no
\* later request of the same request is a proxy generation call.
C2_NoSecondProxyCall ==
    \A i, j \in DOMAIN calls :
        i < j /\ ProxyCall(i) /\ calls[i].out = "fail" => ~ProxyCall(j)

\* C3: a failure in the proxy branch (negative probe, failed proxy call) is
\* never the request's error; the API-key check is evaluated right after it,
\* and the next request, if there is one, goes to a direct endpoint.
C3_ProxyFailureSwallowed ==
    /\ error \notin TierErrors
    /\ \A i \in DOMAIN calls :
          (Probe(i) \/ ProxyCall(i)) /\ calls[i].out = "fail"
              => /\ \E j \in DOMAIN checked : checked[j].at = i
                 /\ i < Last => DirectCall(i + 1)

C3_Witness ==
    \E i \in DOMAIN calls :
        ProxyCall(i) /\ calls[i].out = "fail" /\ i < Last /\ DirectCall(i + 1)

\* C4: when the probe of a configured proxy fails the request goes on to the
\* key check of the direct path; if no valid API key is available, it fails
\* with the message that names both the server and the key, and no request
\* to a direct endpoint was issued.
C4_ProbeFailsNoKey ==
    (/\ pc = "done" /\ calls # <<>>
     /\ Probe(Last) /\ calls[Last].out = "fail"
     /\ ~WellFormedKey(getActiveApiKey(GEMINI_API_KEY, apiKey)))
        => /\ outcome = "failure"
           /\ error = "server unavailable and no valid API key"
           /\ \A j \in DOMAIN calls : ~DirectCall(j)
           /\ \E j \in DOMAIN checked : checked[j].at = Last

C4_Witness ==
    /\ pc = "done" /\ calls # <<>> /\ Probe(Last) /\ calls[Last].out = "fail"
    /\ error = "server unavailable and no valid API key"

C6_StreamFailsThenDirectStandard ==
    \A i \in DOMAIN calls :
        calls[i].ep = "streamGenerateContent" /\ calls[i].out = "fail"
            => /\ i < Last => calls[i + 1].ep = "generateContent"
               /\ outcome = "success" => Last = i + 1

\* C7 as stated: a request fails only with its last request being the direct
\* whole-body call, failed, and the error being that call's error.
C7_FailureIsLastTierError ==
    outcome = "failure"
        => /\ calls # <<>>
           /\ calls[Last].ep = "generateContent" /\ calls[Last].out = "fail"
           /\ error = calls[Last].err

\* C7 amended: a request fails only (a) in input validation (persona, API
\* key, image), with that validation's error, or (b) when its last request
\* was the direct whole-body call and failed, with that call's classified
\* error; in both cases every generation call issued before had failed, in
\* (b) the direct stream was tried first by getAIAnalysisStream, and the
\* error is never the one of a proxy tier or of the direct stream.
C7_FailureIsValidationOrLastTier ==
    outcome = "failure"
        => /\ error \notin TierErrors
           /\ \A i \in DOMAIN calls : ~Probe(i) => calls[i].out = "fail"
           /\ \/ error \in ValidationErrors /\ (calls = <<>> \/ calls[Last].err = "")
              \/ /\ calls # <<>>
                 /\ calls[Last].ep = "generateContent"
                 /\ error = calls[Last].err /\ error \notin ValidationErrors
                 /\ op = "getAIAnalysisStream"
                       => \E i \in DOMAIN calls : calls[i].ep = "streamGenerateContent"

C7_Witness ==
    /\ outcome = "failure" /\ op = "getAIAnalysisStream"
    /\ error = "API rate limit exceeded"
    /\ \E i \in DOMAIN calls : ProxyCall(i)
    /\ \E i \in DOMAIN calls : calls[i].ep = "streamGenerateContent"

\* C8: the string a request returns is not empty and not only whitespace.
C8_SuccessIsNonBlank ==
    outcome = "success"
        => result # <<>> /\ \E i \in DOMAIN result : result[i] # " "

\* a stream that delivered whitespace first and still succeeded
C8_Witness ==
    /\ outcome = "success" /\ sink # <<>> /\ sink[1] = <<" ">>

\* C9: a request that was started ends, and it ends either with a returned
\* string and no error, or with an error and no string; until then it has
\* neither, and once ended it stays ended.
ExactlyOne ==
    \/ pc # "done" /\ outcome = "none" /\ result = NoText /\ error = ""
    \/ pc = "done" /\ outcome = "success" /\ result # NoText /\ error = ""
    \/ pc = "done" /\ outcome = "failure" /\ result = NoText /\ error # ""

C10_SinkLengthsNonDecreasing ==
    \A i \in DOMAIN sink : i < Len(sink) => Len(sink[i]) <= Len(sink[i + 1])

\* the endpoints of the whole-body (standard) tiers
StandardEndpoints == {"api/gemini/generate", "api/gemini/vision", "generateContent"}

\* C11 as stated: when a request succeeds and a sink was supplied, the last
\* string passed to the sink is the string returned.
C11_LastUpdateIsResult ==
    (outcome = "success" /\ onUpdate)
        => sink # <<>> /\ sink[Len(sink)] = result

\* C12 as stated: when a standard tier serves the request, a sink was
\* supplied and no stream delivered anything before, the sink received at
\* least 2 calls, each string strictly longer than the one before, the last
\* one equal to the result.
C12_StandardTierSimulation ==
    (/\ outcome = "success" /\ onUpdate /\ reads = 0
     /\ calls[Last].ep \in StandardEndpoints)
        => /\ Len(sink) >= 2
           /\ \A i \in 1..(Len(sink) - 1) : Len(sink[i]) < Len(sink[i + 1])
           /\ sink[Len(sink)] = result

\* C13: with a sink and a non-empty text, the chunked typewriter calls the
\* sink with the prefixes of the text of lengths c, 2c, 3c, ... capped at the
\* length of the text, in that order, and then once more with the text itself.
C13_ChunkedPrefixes ==
    (pc = "done" /\ frame = "getServerAnalysis" /\ onUpdate /\ result # <<>>)
        => LET n == Len(result)
               k == (n + chunkSize - 1) \div chunkSize
           IN  /\ Len(sink) = k + 1
               /\ \A i \in 1..k :
                     sink[i] = SubSeq(result, 1, IF i * chunkSize < n THEN i * chunkSize ELSE n)
               /\ sink[k + 1] = result

\* a text of more than two chunks and a remainder went through the typewriter
C13_Witness ==
    /\ pc = "done" /\ frame = "getServerAnalysis" /\ onUpdate
    /\ Len(result) > 2 * chunkSize /\ Len(result) % chunkSize # 0
    /\ Len(sink) = 4

AtLineEnd == pc = "serverStreamRead" /\ wire.open = <<>>

\* C15 as stated: however the body read so far was cut into chunks, the
\* proxy decoders hold the accumulation, and have passed the updates, that
\* the same body gives when it comes in one chunk (checked up to the
\* record that ends the stream).
C15_ChunkBoundaryIndependence ==
    (AtLineEnd /\ ~wire.ended)
        => /\ accumulatedText = wire.acc
           /\ onUpdate => sink = wire.emits

\* a chunk of one line of the kind k
OneLine(k) ==
    [cut |-> FALSE, lines |-> <<[kind |-> k, text |-> NoText]>>, open |-> FALSE]

\* a chunk with a line of the kind k and the record l after it
ThenLine(k, l) ==
    [cut |-> FALSE, lines |-> <<[kind |-> k, text |-> NoText], l>>, open |-> FALSE]

ContentA == [kind |-> "content", text |-> <<"a">>]
TextA == [kind |-> "text", text |-> <<"a">>]

\* C16 as stated: the read that decodes a record with an error field ends
\* the reading of the proxy stream, and nothing of that chunk reaches the
\* sink.
C16_ErrorRecordAborts ==
    [][(\/ serverStreamChunk(OneLine("error"))
        \/ serverStreamChunk(ThenLine("error", ContentA))
        \/ visionStreamChunk(OneLine("error"))
        \/ visionStreamChunk(ThenLine("error", TextA)))
            => pc' # "serverStreamRead" /\ sink' = sink]_vars

\* C17 as stated: once the sentinel or a completion record was decoded (no
\* line having been split), the accumulation and the sink stay what they
\* were when it was met, whatever arrives after it.
C17_NothingAfterTerminator ==
    (AtLineEnd /\ wire.ended /\ ~wire.split)
        => /\ accumulatedText = wire.acc
           /\ onUpdate => sink = wire.emits

\* what onUpdate receives when the text t is decoded
Updated(t) == IF onUpdate THEN Append(sink, t) ELSE sink

\* C18: a line that fails to parse changes neither the accumulation nor the
\* sink and does not end the reading; a well-formed record after it, in the
\* same chunk or a later one, is applied: appended by the proxy decoders,
\* taken as the new text by the direct decoder.
C18_MalformedRecordSkipped ==
    [][/\ (serverStreamChunk(OneLine("malformed")) \/ visionStreamChunk(OneLine("malformed")))
          => pc' = pc /\ accumulatedText' = accumulatedText /\ sink' = sink
       /\ ( \/ serverStreamChunk(ThenLine("malformed", ContentA))
            \/ visionStreamChunk(ThenLine("malformed", TextA))
            \/ wire.malformed /\ serverStreamChunk([cut |-> FALSE, lines |-> <<ContentA>>, open |-> FALSE])
            \/ wire.malformed /\ visionStreamChunk([cut |-> FALSE, lines |-> <<TextA>>, open |-> FALSE]))
          => /\ pc' = pc
             /\ accumulatedText' = accumulatedText \o <<"a">>
             /\ sink' = Updated(accumulatedText \o <<"a">>)
       /\ \A ch \in StreamChunks :
             (streamChunk(ch) /\ ch.nl /\ buffer \o ch.toks # <<>>)
                 => LET line == buffer \o ch.toks IN
                    /\ pc' = pc
                    /\ IF Len(line) = 1 /\ line[1].kind = "record" /\ line[1].text # NoText
                       THEN accumulatedText' = line[1].text /\ sink' = Updated(line[1].text)
                       ELSE accumulatedText' = accumulatedText /\ sink' = sink
      ]_vars

\* a record was applied after a line in the same chunk had failed to parse
C18_Witness ==
    /\ pc = "serverStreamRead" /\ wire.malformed /\ reads = 1
    /\ accumulatedText = <<"a">> /\ sink = <<<<"a">>>>

\* C19 as stated: from its first await to its last, a request keeps the
\* apiKey and serverUrl it read at its start, also when the settings are
\* saved while it is in flight (getPalmistryAnalysis has no serverUrl).
C19_OneSettingsSnapshot ==
    [][(pc \notin {"idle", "done"} /\ pc' # "done")
          => /\ apiKey' = apiKey
             /\ frame' # "getPalmistryAnalysis" => serverUrl' = serverUrl]_vars

\* the documented kind of error a message of the catch blocks stands for
ErrorKind(msg) ==
    CASE msg \in {"API request error", "image file too large"} -> "InvalidInput"
      [] msg = "API key invalid" -> "AuthInvalid"
      [] msg \in {"API access denied",
                  "API access denied or Vision API not enabled"} -> "PermissionDenied"
      [] msg = "API rate limit exceeded" -> "RateLimited"
      [] msg = "Gemini internal server error" -> "ServerFault"
      [] OTHER -> "Unknown"

\* the kind documented for an HTTP status
DocumentedKind(st) ==
    CASE st \in {400, 413} -> "InvalidInput"
      [] st = 401 -> "AuthInvalid"
      [] st = 403 -> "PermissionDenied"
      [] st = 429 -> "RateLimited"
      [] OTHER -> "ServerFault"

\* C20 as stated: when a direct call of the text path or of the image path
\* is answered with one of the statuses 400, 401, 403, 413, 429, 500 or
\* another 5xx, the request fails with the error documented for that
\* status, never with the generic one.
C20_ClassificationTotal ==
    [][\A e \in AxiosErrors :
          (e.response # 0 /\ (axiosPostReturns(e) \/ visionPostReturns(e)))
              => /\ outcome' = "failure"
                 /\ ErrorKind(error') = DocumentedKind(e.response)]_vars

\* an axios request that hit its timeout: a request object, no response
TimedOut == [response |-> 0, request |-> TRUE, code |-> "ECONNABORTED"]

\* C21 as stated: a direct call that hit its timeout fails with the timeout
\* message of its path, never with the message of a failed connection.
C21_TimeoutIsNotNetworkFailure ==
    [][/\ axiosPostReturns(TimedOut)
          => outcome' = "failure" /\ error' = "API call timed out"
       /\ visionPostReturns(TimedOut)
          => outcome' = "failure" /\ error' = "image analysis timed out"]_vars

\* the direct provider answering HTTP 429
TooManyRequests == [response |-> 429, request |-> TRUE, code |-> "ERR_BAD_RESPONSE"]

\* C22: when the whole-body direct call is answered with HTTP 429, also as
\* the fallback of a failed direct stream and after failed proxy tiers, the
\* request fails with the rate-limit error.
C22_RateLimitedIsFinal ==
    [][axiosPostReturns(TooManyRequests)
          => outcome' = "failure" /\ error' = "API rate limit exceeded"]_vars

\* a streaming request with a proxy configured failed with the rate-limit
\* error after its direct stream had failed
C22_Witness ==
    /\ op = "getAIAnalysisStream" /\ outcome = "failure"
    /\ error = "API rate limit exceeded"
    /\ \E i \in DOMAIN calls : calls[i].ep = "api/health"
    /\ \E i \in DOMAIN calls :
          calls[i].ep = "streamGenerateContent" /\ calls[i].out = "fail"

\* a 2xx body of the direct provider with `candidates: []`
EmptyCandidates == [kind |-> "noCandidates", text |-> NoText]

\* C23 as stated: a direct call answered with 200 and an empty candidates
\* list fails the request with the error raised for an empty or blank
\* candidate text.
C23_EmptyCandidatesIsEmptyResult ==
    [][(axiosPostReturns(EmptyCandidates) \/ visionPostReturns(EmptyCandidates))
          => /\ outcome' = "failure"
             /\ error' = "API returned an empty analysis result"]_vars

\* the request was called with an argument that validation rejects
InvalidArguments ==
    \/ op # "none" /\ ~isValidMaster(master)
    \/ /\ op \in {"getPalmistryAnalysisStream", "getPalmistryAnalysis"}
       /\ \/ image.data = <<>> \/ Trim(image.data) = <<>>
          \/ ~isSupportedImageType(image.mimeType)

\* C24 as stated: a request called with an invalid persona, empty image
\* data or a MIME type outside the allow-list issues no network request,
\* the health probe and the proxy calls included, and a request that fails
\* on the API key check has issued none either.
C24_ValidationBeforeNetwork ==
    /\ InvalidArguments => calls = <<>>
    /\ (outcome = "failure" /\ error \in ValidationErrors) => calls = <<>>

\* C25: whatever the probe meets, checkServerHealth gives a boolean and
\* throws nothing: the probe counts as healthy exactly when the response is
\* 2xx with a body whose status is "ok"; on a timeout, a network error, a
\* non-2xx status, an unparseable or any other body the function goes on
\* below the proxy block without a proxy call, and if the request fails in
\* that step it fails on a check of the direct tier.
C25_HealthProbeNeverThrows ==
    [][\A r \in HealthResponses :
          healthReturns(r)
              => /\ calls'[Len(calls)].out = (IF r = "ok" THEN "ok" ELSE "fail")
                 /\ r # "ok" => \A i \in DOMAIN calls' : i > Len(calls) => DirectCall(i)'
                 /\ outcome' = "failure" => error' \in ValidationErrors]_vars

\* a probe gave false and the request went on with a direct call
C25_Witness ==
    \E i \in DOMAIN calls :
        /\ Probe(i) /\ calls[i].out = "fail"
        /\ i < Len(calls) /\ DirectCall(i + 1)

\* every proxy generation call comes right after a probe of the same
\* request that returned healthy
ProbeGatesProxy ==
    \A i \in DOMAIN calls :
        ProxyCall(i) => i > 1 /\ Probe(i - 1) /\ calls[i - 1].out = "ok"

ReachesProxyBlock ==
    \/ op = "getAIAnalysis"
    \/ op = "getAIAnalysisStream" /\ isValidMaster(master)
    \/ op = "getPalmistryAnalysisStream" /\ ~buildPromptThrows(master)

RECURSIVE ContainsFrom(_, _, _)
ContainsFrom(s, t, i) ==
    IF i + Len(t) - 1 > Len(s) THEN FALSE
    ELSE IF SubSeq(s, i, i + Len(t) - 1) = t THEN TRUE
    ELSE ContainsFrom(s, t, i + 1)

C28_ImageCheckedBeforeNetwork ==
    (/\ op \in {"getPalmistryAnalysisStream", "getPalmistryAnalysis"}
     /\ ~isSupportedImageType(image.mimeType))
        => \A i \in DOMAIN calls : ~ProxyCall(i) /\ ~DirectCall(i)

\* the line a chunk of the direct stream completes is one record with text
TextRecord(line) ==
    Len(line) = 1 /\ line[1].kind = "record" /\ line[1].text # NoText

\* C29: in the direct stream a record's text replaces what was held: after
\* a line with a text record the accumulation is that record's text and it
\* is what the sink receives; any other line or an unfinished one leaves
\* both as they were; on success from the stream the text returned is the
\* accumulation trimmed, that is the last text record's text.
C29_DirectStreamReplaces ==
    [][/\ \A ch \in StreamChunks :
             streamChunk(ch)
                 => IF ch.nl /\ TextRecord(buffer \o ch.toks)
                    THEN /\ accumulatedText' = (buffer \o ch.toks)[1].text
                         /\ sink' = Updated((buffer \o ch.toks)[1].text)
                    ELSE accumulatedText' = accumulatedText /\ sink' = sink
       /\ (pc = "streamRead" /\ outcome' = "success")
             => /\ result' = Trim(accumulatedText)
                /\ accumulatedText \in StreamTexts]_vars

\* two text records were decoded and the request returned the second one
C29_Witness ==
    /\ outcome = "success" /\ calls # <<>>
    /\ calls[Len(calls)].ep = "streamGenerateContent"
    /\ result = <<"a">>
    /\ sink = << <<"a", "a">>, <<"a">> >>

\* C30 as stated: every tier that simulates streaming delivers, for the same
\* full text, the sequence the proxy-standard text path delivers: the
\* prefixes in steps of chunkSize and then the full text.
C30_SameSimulationEverywhere ==
    (pc = "done" /\ frame \in {"getServerAnalysis", "getAIAnalysisStream"})
        => sink = simulateChunks(onUpdate, result)

\* the non-empty contents of the records among the lines, in order, up to
\* the line that ends the loop over them
RECURSIVE AppliedContents(_)
AppliedContents(lines) ==
    IF lines = <<>> \/ Head(lines).kind \in {"DONE", "done"} THEN <<>>
    ELSE (IF Head(lines).kind = "content" /\ Head(lines).text # NoText
          THEN <<Head(lines).text>> ELSE <<>>)
         \o AppliedContents(Tail(lines))

\* acc with the first n of the texts appended
RECURSIVE Joined(_, _, _)
Joined(acc, texts, n) ==
    IF n = 0 THEN acc ELSE Joined(acc, texts, n - 1) \o texts[n]

\* C31: in the proxy text stream every read leaves the accumulation equal
\* to what it was with the contents of the records applied in that read
\* appended in order; the sink receives the accumulation once after each
\* such record, and a line without a non-empty string content changes
\* neither the accumulation nor the sink.
C31_ProxyStreamAppends ==
    [][\A ch \in ServerChunks :
          serverStreamChunk(ch)
              => LET texts == AppliedContents(wholeLines(ch)) IN
                 /\ accumulatedText' = Joined(accumulatedText, texts, Len(texts))
                 /\ sink' = IF onUpdate
                            THEN sink \o [n \in 1..Len(texts) |->
                                             Joined(accumulatedText, texts, n)]
                            ELSE sink]_vars

\* two content records were applied in two reads
C31_Witness ==
    /\ pc = "serverStreamRead" /\ frame = "getAIAnalysisStream" /\ reads = 2
    /\ accumulatedText = <<"a", " ">>
    /\ sink = << <<"a">>, <<"a", " ">> >>

\* C32 as stated: when the direct stream closes while the buffer holds a
\* complete text record that no newline followed, that record is applied:
\* the request returns its text and the sink receives it.
C32_UnterminatedRecordApplied ==
    [][(streamEnds(TRUE) /\ TextRecord(buffer) /\ Trim(buffer[1].text) # NoText)
          => /\ outcome' = "success" /\ result' = Trim(buffer[1].text)
             /\ onUpdate => (sink' # <<>> /\ sink'[Len(sink')] = buffer[1].text)]_vars

\* what a request holds and has delivered
OwnState == <<pc, frame, accumulatedText, buffer, reads, sink, outcome, result, error>>

\* from acc and snk, a read of a proxy stream with these lines gives acc2
\* and snk2: the contents applied are appended, each one surfaced
ProxyRead(acc, snk, acc2, snk2, lines, surfaced) ==
    LET texts == AppliedContents(lines) IN
    /\ acc2 = Joined(acc, texts, Len(texts))
    /\ snk2 = IF surfaced
              THEN snk \o [n \in 1..Len(texts) |-> Joined(acc, texts, n)]
              ELSE snk

\* the same for a read of a direct stream that completes the line `line`
\* (or, with complete FALSE, leaves it open)
DirectRead(acc, snk, acc2, snk2, line, complete, surfaced) ==
    IF complete /\ TextRecord(line)
    THEN acc2 = line[1].text /\ snk2 = (IF surfaced THEN Append(snk, line[1].text) ELSE snk)
    ELSE acc2 = acc /\ snk2 = snk

\* C33: with two stream decodes in flight, a step of one request leaves
\* everything the other holds and has delivered unchanged, and what a
\* request accumulates, passes to its sink and returns comes from its own
\* accumulation and the chunk of its own response alone.
C33_RequestsIndependent ==
    [][/\ peer' # peer => OwnState' = OwnState
       /\ OwnState' # OwnState => peer' = peer
       /\ \A ch \in ServerChunks :
             serverStreamChunk(ch)
                 => ProxyRead(accumulatedText, sink, accumulatedText', sink',
                              wholeLines(ch), onUpdate)
       /\ \A ch \in StreamChunks :
             streamChunk(ch)
                 => DirectRead(accumulatedText, sink, accumulatedText', sink',
                               buffer \o ch.toks, ch.nl, onUpdate)
       /\ streamReturns => result' = Trim(accumulatedText)
       /\ \A ch \in OneLineChunks :
             peerServerStreamChunk(ch)
                 => ProxyRead(peer.accumulatedText, peer.sink,
                              peer'.accumulatedText, peer'.sink, ch.lines, TRUE)
       /\ \A ch \in StreamChunks :
             peerStreamChunk(ch)
                 => DirectRead(peer.accumulatedText, peer.sink,
                               peer'.accumulatedText, peer'.sink,
                               peer.buffer \o ch.toks, ch.nl, TRUE)
       /\ peerStreamEnds => peer'.result = Trim(peer.accumulatedText)]_vars

\* both requests returned after their reads interleaved, each its own text
C33_Witness ==
    /\ pc = "done" /\ outcome = "success" /\ result = <<"a">> /\ reads = 2
    /\ peer.pc = "done" /\ peer.result = <<"a", "a">> /\ peer.reads = 2
    /\ sink # <<>> /\ peer.sink # <<>>


\* the string str ends with the string t
EndsWith(str, t) ==
    Len(str) >= Len(t) /\ SubSeq(str, Len(str) - Len(t) + 1, Len(str)) = t

\* a chunk of the vision stream holding the one record l
OneRecord(l) == [cut |-> FALSE, lines |-> <<l>>, open |-> FALSE]

\* C34 as stated: a record of the vision stream that carries a finishReason
\* and a finalText has its finalText applied, so that after it the
\* accumulated text ends with the final text and the sink has received it.
C34_FinishRecordAppliesFinalText ==
    [][\A t \in StreamTexts :
          visionStreamChunk(OneRecord([kind |-> "finishFinalText", text |-> t]))
          => /\ EndsWith(accumulatedText', t)
             /\ sink' = Updated(accumulatedText')]_vars


\* the ceilings written into a prompt
CeilingsOf(p) == {p[i + 1] : i \in {j \in 1..(Len(p) - 1) : p[j] = LimitMark}}

\* C35 as stated: in the prompt of every category that has a template the
\* ceiling is 1400 and the question-analysis section is present when
\* userInfo.question is a non-blank string, and the ceiling is 1200 and the
\* section absent otherwise; every occurrence of the ceiling in one prompt
\* carries that number.
C35_CeilingFollowsQuestion ==
    pc \in {"built", "rebuilt"} /\ gameType \in GameTemplates
    => /\ CeilingsOf(prompt)
          = {IF hasQuestion(userInfo) THEN "1400" ELSE "1200"}
       /\ (ContainsFrom(prompt, QuestionSection, 1) <=> hasQuestion(userInfo))


\* the request holds the lock of a reader it has not released yet
LockHeld == reader.acquired = reader.released + 1

\* C36: in every stream decode the lock of the reader is released exactly
\* once on every exit path, and no read is attempted after the release:
\* while the read loop runs the one reader acquired last is still locked, a
\* read happens only then, the step that leaves the loop releases that
\* reader once, and outside the loop every reader acquired has been
\* released once.
C36_LockReleasedOnce ==
    [][/\ pc' \in {"serverStreamRead", "streamRead"} => LockHeld'
       /\ reads' # reads => LockHeld /\ LockHeld'
       /\ pc \in {"serverStreamRead", "streamRead"} /\ pc' # pc
          => reader' = [reader EXCEPT !.released = @ + 1]
       /\ pc' \notin {"serverStreamRead", "streamRead"}
          => reader'.released = reader'.acquired]_vars

\* the proxy stream ended without text and the direct stream returned: two
\* readers were acquired and released, and both were read from
C36_Witness ==
    /\ pc = "done" /\ outcome = "success" /\ reads >= 2
    /\ reader = [acquired |-> 2, released |-> 2]
    /\ \E i \in DOMAIN calls : calls[i].ep = "api/gemini/stream"


\* C37 as stated: the key sent on a direct provider call is the active key
\* that passed validation just before it (the preconfigured key when set,
\* else the user's key), and the direct calls of one request carry the same
\* key.
C37_DirectCallsUseActiveKey ==
    /\ \A i \in DOMAIN calls :
          DirectCall(i)
          => /\ calls[i].key = getActiveApiKey(GEMINI_API_KEY, settings.apiKey)
             /\ \E j \in DOMAIN checked :
                   checked[j].at = i - 1 /\ checked[j].key = calls[i].key
    /\ \A i, j \in DOMAIN calls :
          DirectCall(i) /\ DirectCall(j) => calls[i].key = calls[j].key


\* the two binary strings differ at exactly the positions listed
DiffersExactlyAt(a, b, positions) ==
    /\ Len(a) = Len(b)
    /\ \A i \in 1..Len(a) :
          (a[i] # b[i]) <=> (\E k \in DOMAIN positions : positions[k] = i)

\* C38: for every outcome of the eighteen tosses generateHexagram returns a
\* result isValidHexagram accepts: six lines with values in 6..9 whose type
\* and changing flag agree with the value, changingPositions the ascending
\* 1-based positions of the changing lines, and changedHexagram defined
\* exactly when a line changes, differing from the original at exactly the
\* changing positions.
C38_HexagramValid ==
    pc = "done" /\ op = "generateHexagram"
    => /\ isValidHexagram(hexagram)
       /\ Len(hexagram.yaos) = 6
       /\ \A i \in 1..6 :
             /\ hexagram.yaos[i].value \in {6, 7, 8, 9}
             /\ hexagram.yaos[i].changing <=> hexagram.yaos[i].value \in {6, 9}
             /\ (hexagram.yaos[i].type = "yang") <=> hexagram.yaos[i].value \in {7, 9}
       /\ \A k \in DOMAIN hexagram.changingPositions :
             /\ hexagram.changingPositions[k] \in 1..6
             /\ hexagram.yaos[hexagram.changingPositions[k]].changing
             /\ k > 1 => hexagram.changingPositions[k - 1] < hexagram.changingPositions[k]
       /\ \A i \in 1..6 :
             hexagram.yaos[i].changing
             => \E k \in DOMAIN hexagram.changingPositions :
                   hexagram.changingPositions[k] = i
       /\ (hexagram.changedHexagram # <<>>) <=> (hexagram.changingPositions # <<>>)
       /\ hexagram.changedHexagram # <<>>
          => DiffersExactlyAt(hexagram.originalHexagram, hexagram.changedHexagram,
                              hexagram.changingPositions)

\* a hexagram returned whose first and last lines change and whose other
\* lines do not
C38_Witness ==
    /\ pc = "done" /\ op = "generateHexagram"
    /\ hexagram.changingPositions = <<1, 6>>
    /\ hexagram.originalHexagram = <<"0", "1", "0", "1", "0", "1">>
    /\ hexagram.changedHexagram = <<"1", "1", "0", "1", "0", "0">>


\* C39 as stated: for every birth date, also of a year before 1900, and
\* every hour 0..23 the chart's stem indices lie in 0..9 and its branch and
\* zodiac indices in 0..11, so that every pillar and the zodiac animal are
\* looked up inside their tables, and the branch of the hour pillar is the
\* one getTimeRangeByHour names for the hour.
C39_IndicesInRange ==
    pc = "done" /\ op = "generateBaZiChart"
    => /\ \A p \in {"year", "month", "day", "hour"} :
             /\ chart.ganZhi.index[p].stem \in 0..9
             /\ chart.ganZhi.index[p].branch \in 0..11
             /\ chart.ganZhi.stemBranch[p].stem # "undefined"
             /\ chart.ganZhi.stemBranch[p].branch # "undefined"
       /\ zodiacOffset(chart.solarDate.year) \in 0..11
       /\ chart.zodiacAnimal # "undefined"
       /\ chart.ganZhi.stemBranch.hour.branch = getTimeRangeByHour(birthInfo.birthTime)

====
